---- MODULE Spec2Model ----
(***************************************************************************)
(* Model of the AWS misconfiguration scanner (aws_misconfig_scanner):      *)
(* the orchestrator AWSMisconfigurationScanner.run_all_scans, the six      *)
(* service scanners it drives, and the __main__ summary loop.              *)
(*                                                                         *)
(* The cloud provider is a collaborator: `provider` is the configuration   *)
(* it reports (the snapshot), `faults` says which provider calls raise.    *)
(* A scan is a pure function of the two; it is written as the code is,     *)
(* statement by statement, threading a scan state                          *)
(*   [findings, calls, errlog, exc]                                        *)
(* where exc is the exception in flight (NoErr when there is none).  While  *)
(* an exception is in flight, Call and Emit do nothing: the statements up   *)
(* to the handler are skipped.                                             *)
(***************************************************************************)
EXTENDS Integers, Sequences, FiniteSets, TLC

VARIABLES
    provider,   \* provider-side configuration, per scanner
    faults,     \* per scanner: the errors its provider calls raise, by call number
    pc,         \* position of the program
    orch,       \* the orchestrator object (its six scanners), or NoOrch
    findings,   \* the dict `findings` local to run_all_scans, in insertion order
    reports,    \* the reports run_all_scans has returned so far, in order
    calls,      \* provider calls issued during the current run, in order
    errorLog,   \* ERROR-level records written through the module loggers
    stdout,     \* what the __main__ block has printed
    exitCode    \* exit status of the process, -1 while it runs

vars == <<provider, faults, pc, orch, findings, reports, calls, errorLog, stdout, exitCode>>

-----------------------------------------------------------------------------
(* Bounds of the model *)

MaxRuns == 2        \* calls of run_all_scans in one behaviour
MaxFaultAt == 5     \* highest call number of a scan that the fault plans make raise
MaxPerms == 2       \* ingress permissions of a security group
MaxRanges == 2      \* IP ranges of an ingress permission
MaxGrants == 2      \* grants of a bucket ACL
MaxStatements == 2  \* statements of a policy document
MaxInstances == 3   \* EC2 instances of an account
MaxDBInstances == 2 \* RDS instances of an account
MaxBuckets == 2     \* S3 buckets of an account
MaxUsers == 2       \* IAM users, and IAM roles, of an account
MaxAttached == 2    \* policies attached to a user or role
MaxKeys == 2        \* access keys of a user
MaxFunctions == 2   \* Lambda functions of an account
MaxFaults == 2      \* provider calls of one scan that raise

-----------------------------------------------------------------------------
(* Python values: dicts are records (a missing key is a missing field),     *)
(* lists are sequences.                                                    *)

Min(a, b) == IF a < b THEN a ELSE b

RECURSIVE Flatten(_)
Flatten(ss) == IF ss = <<>> THEN <<>> ELSE Head(ss) \o Flatten(Tail(ss))

HasKey(d, k) == k \in DOMAIN d

\* d.get(k, default)
GetOr(d, k, default) == IF k \in DOMAIN d THEN d[k] ELSE default

\* str(None), the value d.get(k) gives for a missing string attribute
None == "None"

\* d.get(k) for a string-valued attribute
Get(d, k) == GetOr(d, k, None)

\* truth value of a string-valued d.get(k): None and '' are false
TruthyStr(s) == s # None /\ s # ""

\* truth value of a boolean-valued d.get(k): a missing key gives None, false
TruthyFlag(d, k) == HasKey(d, k) /\ d[k] = TRUE

-----------------------------------------------------------------------------
(* Exceptions raised by provider calls *)

NoErr == [cls |-> "NoErr"]

ClientError(code, msg) == [cls |-> "ClientError", code |-> code, msg |-> msg]

AccessDenied == ClientError("AccessDenied", "Access Denied")
Throttling == ClientError("Throttling", "Rate exceeded")
NoSuchBucketPolicy == ClientError("NoSuchBucketPolicy", "The bucket policy does not exist")
SSENotFound == ClientError("ServerSideEncryptionConfigurationNotFoundError",
                           "The server side encryption configuration was not found")
\* what get_policy raises for a function that has no resource policy
ResourceNotFound == ClientError("ResourceNotFoundException",
                                "The resource you requested does not exist.")
\* a transport failure: an Exception that is not a ClientError
EndpointConnectionError == [cls |-> "EndpointConnectionError",
                            msg |-> "Could not connect to the endpoint URL"]

\* isinstance(e, botocore.exceptions.ClientError)
IsClientError(e) == e.cls = "ClientError"

\* e.response['Error']['Code']
ErrorCode(e) == e.code

\* the name of the API operation behind a client method, as botocore puts
\* it into the exception of a call that fails
OperationName(op) ==
    CASE op = "describe_instances" -> "DescribeInstances"
      [] op = "get_account_summary" -> "GetAccountSummary"
      [] op = "list_policies" -> "ListPolicies"
      [] op = "get_policy_version" -> "GetPolicyVersion"
      [] op = "list_users" -> "ListUsers"
      [] op = "list_access_keys" -> "ListAccessKeys"
      [] op = "get_access_key_last_used" -> "GetAccessKeyLastUsed"
      [] op = "list_attached_user_policies" -> "ListAttachedUserPolicies"
      [] op = "list_roles" -> "ListRoles"
      [] op = "list_attached_role_policies" -> "ListAttachedRolePolicies"
      [] op = "list_functions" -> "ListFunctions"
      [] op = "get_function_concurrency" -> "GetFunctionConcurrency"
      [] op = "get_policy" -> "GetPolicy"
      [] op = "describe_db_instances" -> "DescribeDBInstances"
      [] op = "describe_security_groups" -> "DescribeSecurityGroups"
      [] op = "list_buckets" -> "ListBuckets"
      [] op = "get_bucket_acl" -> "GetBucketAcl"
      [] op = "get_bucket_policy_status" -> "GetBucketPolicyStatus"
      [] op = "get_bucket_encryption" -> "GetBucketEncryption"
      [] op = "get_bucket_versioning" -> "GetBucketVersioning"
      [] op = "put_bucket_encryption" -> "PutBucketEncryption"

\* the exception the call of op raises when the provider fails with e: a
\* ClientError carries the name of the operation that was called
Raise(e, op) ==
    IF IsClientError(e)
    THEN [cls |-> e.cls, code |-> e.code, msg |-> e.msg,
          operation_name |-> OperationName(op)]
    ELSE e

\* str(e)
Str(e) == IF IsClientError(e)
          THEN "An error occurred (" \o e.code \o ") when calling the "
               \o e.operation_name \o " operation: " \o e.msg
          ELSE e.msg

-----------------------------------------------------------------------------
(* Scan state and provider calls *)

\* NewScan with a findings list that outlives the scan: it starts as the
\* EC2 list of the report returned before
NewScanKept ==
    [findings |-> IF reports = <<>> THEN <<>>
                  ELSE reports[Len(reports)][1].val,
     calls |-> <<>>, errlog |-> <<>>, exc |-> NoErr]

\* findings = [] at the start of a scan method
NewScan == [findings |-> <<>>, calls |-> <<>>, errlog |-> <<>>, exc |-> NoErr]

Raised(st) == st.exc # NoErr

\* F applied to the value of st, which is computed once
Bind(st, F(_)) == CHOOSE r \in {F(s) : s \in {st}} : TRUE

\* the error the plan makes call number i raise, NoErr if it returns
FaultAt(plan, i) == IF i \in DOMAIN plan THEN plan[i] ELSE NoErr

\* Call with a client that issues a call that raised once more
CallRetry(st, plan, op, arg) ==
    Bind(st, LAMBDA s :
        IF Raised(s) THEN s
        ELSE IF FaultAt(plan, Len(s.calls) + 1) = NoErr
        THEN [s EXCEPT !.calls = Append(@, [op |-> op, arg |-> arg])]
        ELSE [s EXCEPT !.calls = @ \o <<[op |-> op, arg |-> arg], [op |-> op, arg |-> arg]>>,
                       !.exc = Raise(FaultAt(plan, Len(s.calls) + 1), op)])

\* self.client.<op>(<arg>): issued only if no exception is in flight; the
\* call is recorded, and raises if the plan says so
Call(st, plan, op, arg) ==
    Bind(st, LAMBDA s :
        IF Raised(s) THEN s
        ELSE [s EXCEPT !.calls = Append(@, [op |-> op, arg |-> arg]),
                       !.exc = Raise(FaultAt(plan, Len(s.calls) + 1), op)])

\* the provider answers the call with an exception, not with a response
IsException(answer) == HasKey(answer, "cls")

\* self.client.<op>(<arg>) where the provider's answer may be an exception:
\* the call raises if the plan says so, and else if the answer is one
CallFor(st, plan, op, arg, answer) ==
    Bind(st, LAMBDA s0 :
        IF Raised(s0) THEN s0
        ELSE Bind(Call(s0, plan, op, arg), LAMBDA s :
                 IF ~Raised(s) /\ IsException(answer)
                 THEN [s EXCEPT !.exc = Raise(answer, op)]
                 ELSE s))

\* Emit with findings.insert(0, f)
EmitFront(st, f) ==
    Bind(st, LAMBDA s : IF Raised(s) THEN s ELSE [s EXCEPT !.findings = <<f>> \o @])

\* findings.append(f), skipped when an exception is in flight
Emit(st, f) ==
    Bind(st, LAMBDA s : IF Raised(s) THEN s ELSE [s EXCEPT !.findings = Append(@, f)])

\* findings.append(f) if cond
EmitIf(st, cond, f) == IF cond THEN Emit(st, f) ELSE st

\* ExceptException with a handler that only logs
ExceptExceptionSilent(st, prefix) ==
    Bind(st, LAMBDA s :
        IF Raised(s)
        THEN [s EXCEPT !.errlog = Append(@, prefix \o Str(s.exc)), !.exc = NoErr]
        ELSE s)

\* ExceptException with a handler that ends in `raise`
ExceptExceptionReraise(st, prefix) ==
    Bind(st, LAMBDA s :
        IF Raised(s)
        THEN [s EXCEPT !.errlog = Append(@, prefix \o Str(s.exc)),
                       !.findings = Append(@, [Error |-> Str(s.exc)])]
        ELSE s)

\* except Exception as e: logger.error(f"<prefix>{e}"); findings.append({'Error': str(e)})
ExceptException(st, prefix) ==
    Bind(st, LAMBDA s :
        IF Raised(s)
        THEN [s EXCEPT !.errlog = Append(@, prefix \o Str(s.exc)),
                       !.findings = Append(@, [Error |-> Str(s.exc)]),
                       !.exc = NoErr]
        ELSE s)

-----------------------------------------------------------------------------
(* EC2Scanner *)

\* EC2Instance with the test "'PublicIpAddress' in instance"
EC2InstanceKeyPresent(st, instance) ==
    LET instance_id == instance["InstanceId"]
        public_ip == Get(instance, "PublicIpAddress")
    IN  EmitIf(st, HasKey(instance, "PublicIpAddress"),
               [InstanceId |-> instance_id,
                Issue |-> "EC2 instance " \o instance_id
                          \o " has a public IP address assigned: " \o public_ip])

\* body of the loop over the instances of one reservation
EC2Instance(st, instance) ==
    LET instance_id == instance["InstanceId"]
        public_ip == Get(instance, "PublicIpAddress")
    IN  EmitIf(st, TruthyStr(public_ip),
               [InstanceId |-> instance_id,
                Issue |-> "EC2 instance " \o instance_id
                          \o " has a public IP address assigned: " \o public_ip])

RECURSIVE EC2Instances(_, _)
EC2Instances(st, instances) ==
    IF instances = <<>> THEN st
    ELSE EC2Instances(EC2Instance(st, Head(instances)), Tail(instances))

RECURSIVE EC2Reservations(_, _)
EC2Reservations(st, reservations) ==
    IF reservations = <<>> THEN st
    ELSE EC2Reservations(EC2Instances(st, Head(reservations)["Instances"]),
                         Tail(reservations))

\* the try block of scan_ec2_instances
EC2Try(world, plan) ==
    EC2Reservations(Call(NewScan, plan, "describe_instances", ""), world["Reservations"])

scan_ec2_instances(world, plan) ==
    ExceptException(EC2Try(world, plan), "Error scanning EC2 instances: ")

-----------------------------------------------------------------------------
(* RDSScanner *)

\* RDSInstance with the test "instance.get('StorageEncrypted') is False"
RDSInstanceEncryptedDefault(st, instance) ==
    LET instance_id == instance["DBInstanceIdentifier"]
        st1 == EmitIf(st, TruthyFlag(instance, "PubliclyAccessible"),
                      [InstanceId |-> instance_id,
                       Issue |-> "RDS instance is publicly accessible."])
        st2 == EmitIf(st1, HasKey(instance, "StorageEncrypted")
                           /\ instance["StorageEncrypted"] = FALSE,
                      [InstanceId |-> instance_id,
                       Issue |-> "RDS storage encryption is not enabled."])
    IN  EmitIf(st2, GetOr(instance, "BackupRetentionPeriod", 0) = 0,
               [InstanceId |-> instance_id,
                Issue |-> "No backup retention configured."])

\* body of the loop over the database instances
RDSInstance(st, instance) ==
    LET instance_id == instance["DBInstanceIdentifier"]
        st1 == EmitIf(st, TruthyFlag(instance, "PubliclyAccessible"),
                      [InstanceId |-> instance_id,
                       Issue |-> "RDS instance is publicly accessible."])
        st2 == EmitIf(st1, ~TruthyFlag(instance, "StorageEncrypted"),
                      [InstanceId |-> instance_id,
                       Issue |-> "RDS storage encryption is not enabled."])
    IN  EmitIf(st2, GetOr(instance, "BackupRetentionPeriod", 0) = 0,
               [InstanceId |-> instance_id,
                Issue |-> "No backup retention configured."])

RECURSIVE RDSInstances(_, _)
RDSInstances(st, instances) ==
    IF instances = <<>> THEN st
    ELSE RDSInstances(RDSInstance(st, Head(instances)), Tail(instances))

\* the try block of scan_rds_instances
RDSTry(world, plan) ==
    RDSInstances(Call(NewScan, plan, "describe_db_instances", ""), world["DBInstances"])

scan_rds_instances(world, plan) ==
    ExceptException(RDSTry(world, plan), "Error scanning RDS instances: ")

-----------------------------------------------------------------------------
(* SGScanner *)

DANGEROUS_PORTS == {22, 3389, 3306, 5432, 80, 443}

\* from_port and to_port after "if from_port is None or to_port is None":
\* an integer, or the string 'All Ports'
AllPorts == [isInt |-> FALSE, s |-> "All Ports"]
IntPort(n) == [isInt |-> TRUE, n |-> n]

PortsOf(permission) ==
    IF HasKey(permission, "FromPort") /\ HasKey(permission, "ToPort")
    THEN [from_port |-> IntPort(permission["FromPort"]),
          to_port |-> IntPort(permission["ToPort"])]
    ELSE [from_port |-> AllPorts, to_port |-> AllPorts]

\* how an f-string renders a port
PortStr(p) == IF p.isInt THEN ToString(p.n) ELSE p.s

\* isinstance(from_port, int) and from_port in DANGEROUS_PORTS
IsDangerous(from_port) == from_port.isInt /\ from_port.n \in DANGEROUS_PORTS

\* SGRange with the second check as the elif of the first
SGRangeElif(st, sg_id, ports, ip_range) ==
    LET cidr_ip == Get(ip_range, "CidrIp")
    IN  IF cidr_ip = "0.0.0.0/0"
        THEN Emit(st, [SecurityGroup |-> sg_id,
                       Issue |-> "Ports " \o PortStr(ports.from_port) \o "-"
                                 \o PortStr(ports.to_port)
                                 \o " open to the world (0.0.0.0/0)"])
        ELSE EmitIf(st, IsDangerous(ports.from_port),
                    [SecurityGroup |-> sg_id,
                     Issue |-> "Dangerous port " \o PortStr(ports.from_port)
                               \o " open to the world (0.0.0.0/0)"])

\* body of the loop over the IP ranges of one permission
SGRange(st, sg_id, ports, ip_range) ==
    LET cidr_ip == Get(ip_range, "CidrIp")
        st1 == EmitIf(st, cidr_ip = "0.0.0.0/0",
                      [SecurityGroup |-> sg_id,
                       Issue |-> "Ports " \o PortStr(ports.from_port) \o "-"
                                 \o PortStr(ports.to_port)
                                 \o " open to the world (0.0.0.0/0)"])
    IN  EmitIf(st1, IsDangerous(ports.from_port),
               [SecurityGroup |-> sg_id,
                Issue |-> "Dangerous port " \o PortStr(ports.from_port)
                          \o " open to the world (0.0.0.0/0)"])

RECURSIVE SGRanges(_, _, _, _)
SGRanges(st, sg_id, ports, ranges) ==
    IF ranges = <<>> THEN st
    ELSE SGRanges(SGRange(st, sg_id, ports, Head(ranges)), sg_id, ports, Tail(ranges))

RECURSIVE SGPermissions(_, _, _)
SGPermissions(st, sg_id, permissions) ==
    IF permissions = <<>> THEN st
    ELSE LET permission == Head(permissions)
         IN  SGPermissions(SGRanges(st, sg_id, PortsOf(permission),
                                    GetOr(permission, "IpRanges", <<>>)),
                           sg_id, Tail(permissions))

RECURSIVE SGGroups(_, _)
SGGroups(st, security_groups) ==
    IF security_groups = <<>> THEN st
    ELSE LET sg == Head(security_groups)
         IN  SGGroups(SGPermissions(st, sg["GroupId"], GetOr(sg, "IpPermissions", <<>>)),
                      Tail(security_groups))

\* the try block of scan_security_groups
SGTry(world, plan) ==
    SGGroups(Call(NewScan, plan, "describe_security_groups", ""), world["SecurityGroups"])

scan_security_groups(world, plan) ==
    ExceptException(SGTry(world, plan), "Error scanning Security Groups: ")

-----------------------------------------------------------------------------
(* LambdaScanner *)

\* body of the loop over the functions of one page
LambdaFunction(st, world, plan, function) ==
    LET function_name == function["FunctionName"]
        st1 == EmitIf(st, ~HasKey(function, "KMSKeyArn"),
                      [FunctionName |-> function_name,
                       Issue |-> "Environment variables are not encrypted with KMS."])
        st2 == Call(st1, plan, "get_function_concurrency", function_name)
        concurrency == world["Concurrency"][function_name]
        st3 == EmitIf(st2, ~HasKey(concurrency, "ReservedConcurrentExecutions"),
                      [FunctionName |-> function_name,
                       Issue |-> "No reserved concurrency set."])
        policy == world["Policy"][function_name]
        st4 == CallFor(st3, plan, "get_policy", function_name, policy)
    IN  EmitIf(st4, HasKey(policy, "Policy"),
               [FunctionName |-> function_name,
                Issue |-> "Function has resource policy attached; review for overly permissive access."])

RECURSIVE LambdaFunctions(_, _, _, _)
LambdaFunctions(st, world, plan, functions) ==
    IF functions = <<>> THEN st
    ELSE LambdaFunctions(LambdaFunction(st, world, plan, Head(functions)),
                         world, plan, Tail(functions))

\* for page in paginator.paginate(): one list_functions call per page
RECURSIVE LambdaPages(_, _, _, _)
LambdaPages(st, world, plan, pages) ==
    IF pages = <<>> THEN st
    ELSE LET st1 == Call(st, plan, "list_functions", "")
         IN  LambdaPages(LambdaFunctions(st1, world, plan, Head(pages)["Functions"]),
                         world, plan, Tail(pages))

\* the try block of scan_lambda_functions
LambdaTry(world, plan) == LambdaPages(NewScan, world, plan, world["Pages"])

scan_lambda_functions(world, plan) ==
    ExceptException(LambdaTry(world, plan), "Error scanning Lambda functions: ")

-----------------------------------------------------------------------------
(* IAMScanner *)

check_root_account_usage(st, world, plan) ==
    LET st1 == Call(st, plan, "get_account_summary", "")
        root_mfa_enabled == GetOr(world["AccountSummary"]["SummaryMap"], "AccountMFAEnabled", 0)
    IN  EmitIf(st1, root_mfa_enabled = 0,
               [Issue |-> "Root account does not have MFA enabled. This is a security risk."])

\* the Statement element of a policy document: a list of statements, or one
\* statement that the code wraps in a list
StatementList(statements) == IF statements.isList THEN statements.v ELSE <<statements.v>>

IsAllowAll(smt) ==
    Get(smt, "Effect") = "Allow" /\ Get(smt, "Action") = "*" /\ Get(smt, "Resource") = "*"

RECURSIVE PolicyStatements(_, _, _)
PolicyStatements(st, policy, statements) ==
    IF statements = <<>> THEN st
    ELSE PolicyStatements(
            EmitIf(st, IsAllowAll(Head(statements)),
                   [PolicyName |-> policy["PolicyName"],
                    Issue |-> "Overly permissive policy found: " \o policy["PolicyName"]]),
            policy, Tail(statements))

RECURSIVE PolicyList(_, _, _, _)
PolicyList(st, world, plan, policies) ==
    IF policies = <<>> THEN st
    ELSE LET policy == Head(policies)
             st1 == Call(st, plan, "get_policy_version", policy["Arn"])
             policy_version == world["PolicyVersions"][policy["Arn"]]
             statements == StatementList(policy_version["PolicyVersion"]["Document"]["Statement"])
         IN  PolicyList(PolicyStatements(st1, policy, statements), world, plan, Tail(policies))

RECURSIVE PolicyPages(_, _, _, _)
PolicyPages(st, world, plan, pages) ==
    IF pages = <<>> THEN st
    ELSE LET st1 == Call(st, plan, "list_policies", "Local")
         IN  PolicyPages(PolicyList(st1, world, plan, Head(pages)["Policies"]),
                         world, plan, Tail(pages))

list_overly_permissive_policies(st, world, plan) ==
    PolicyPages(st, world, plan, world["PolicyPages"])

RECURSIVE AccessKeys(_, _, _, _, _)
AccessKeys(st, world, plan, user, keys) ==
    IF keys = <<>> THEN st
    ELSE LET key == Head(keys)
             st1 == Call(st, plan, "get_access_key_last_used", key["AccessKeyId"])
             access_key_last_used == world["LastUsed"][key["AccessKeyId"]]
             never_used == ~HasKey(access_key_last_used["AccessKeyLastUsed"], "LastUsedDate")
         IN  AccessKeys(
                EmitIf(st1, never_used,
                       [UserName |-> user["UserName"], AccessKeyId |-> key["AccessKeyId"],
                        Issue |-> "Access key " \o key["AccessKeyId"] \o " for user "
                                  \o user["UserName"] \o " has never been used."]),
                world, plan, user, Tail(keys))

RECURSIVE KeyUsers(_, _, _, _)
KeyUsers(st, world, plan, users) ==
    IF users = <<>> THEN st
    ELSE LET user == Head(users)
             st1 == Call(st, plan, "list_access_keys", user["UserName"])
             keys == world["AccessKeys"][user["UserName"]]["AccessKeyMetadata"]
         IN  KeyUsers(AccessKeys(st1, world, plan, user, keys), world, plan, Tail(users))

\* threshold_days is a parameter of the method that its body never reads
check_inactive_access_keys(st, world, plan, threshold_days) ==
    LET st1 == Call(st, plan, "list_users", "")
    IN  KeyUsers(st1, world, plan, world["Users"]["Users"])

\* for policy in attached_policies: if policy['PolicyName'] == 'AdministratorAccess'
RECURSIVE AttachedPolicies(_, _, _)
AttachedPolicies(st, attached_policies, finding) ==
    IF attached_policies = <<>> THEN st
    ELSE AttachedPolicies(
            EmitIf(st, Head(attached_policies)["PolicyName"] = "AdministratorAccess", finding),
            Tail(attached_policies), finding)

RECURSIVE AdminUsers(_, _, _, _)
AdminUsers(st, world, plan, users) ==
    IF users = <<>> THEN st
    ELSE LET user == Head(users)
             st1 == Call(st, plan, "list_attached_user_policies", user["UserName"])
             attached_policies == world["AttachedUserPolicies"][user["UserName"]]["AttachedPolicies"]
         IN  AdminUsers(
                AttachedPolicies(st1, attached_policies,
                    [UserName |-> user["UserName"],
                     Issue |-> "IAM User '" \o user["UserName"] \o "' has AdministratorAccess attached."]),
                world, plan, Tail(users))

check_users_for_admin_access(st, world, plan) ==
    LET st1 == Call(st, plan, "list_users", "")
    IN  AdminUsers(st1, world, plan, world["Users"]["Users"])

RECURSIVE AdminRoles(_, _, _, _)
AdminRoles(st, world, plan, roles) ==
    IF roles = <<>> THEN st
    ELSE LET role_name == Head(roles)["RoleName"]
             st1 == Call(st, plan, "list_attached_role_policies", role_name)
             attached_policies == world["AttachedRolePolicies"][role_name]["AttachedPolicies"]
         IN  AdminRoles(
                AttachedPolicies(st1, attached_policies,
                    [RoleName |-> role_name,
                     Issue |-> "IAM Role '" \o role_name \o "' has AdministratorAccess attached."]),
                world, plan, Tail(roles))

RECURSIVE RolePages(_, _, _, _)
RolePages(st, world, plan, pages) ==
    IF pages = <<>> THEN st
    ELSE LET st1 == Call(st, plan, "list_roles", "")
         IN  RolePages(AdminRoles(st1, world, plan, Head(pages)["Roles"]),
                       world, plan, Tail(pages))

check_roles_for_admin_access(st, world, plan) ==
    RolePages(st, world, plan, world["RolePages"])

\* default of the threshold_days parameter of check_inactive_access_keys
DefaultThresholdDays == 90

\* IAMTry with every check in a try of its own that logs and goes on
IAMTryEachGuarded(world, plan) ==
    LET Guarded(st) ==
            Bind(st, LAMBDA s :
                IF Raised(s)
                THEN [s EXCEPT !.errlog = Append(@, "Error during IAM scan: " \o Str(s.exc)),
                               !.exc = NoErr]
                ELSE s)
        st1 == Guarded(check_root_account_usage(NewScan, world, plan))
        st2 == Guarded(list_overly_permissive_policies(st1, world, plan))
        st3 == Guarded(check_inactive_access_keys(st2, world, plan, DefaultThresholdDays))
        st4 == Guarded(check_users_for_admin_access(st3, world, plan))
    IN  check_roles_for_admin_access(st4, world, plan)

\* the try block of run_all_checks
IAMTry(world, plan) ==
    LET st1 == check_root_account_usage(NewScan, world, plan)
        st2 == list_overly_permissive_policies(st1, world, plan)
        st3 == check_inactive_access_keys(st2, world, plan, DefaultThresholdDays)
        st4 == check_users_for_admin_access(st3, world, plan)
    IN  check_roles_for_admin_access(st4, world, plan)

run_all_checks(world, plan) ==
    ExceptException(IAMTry(world, plan), "Error during IAM scan: ")

-----------------------------------------------------------------------------
(* S3Scanner *)

\* for grant in acl.get('Grants', [])
RECURSIVE S3Grants(_, _, _)
S3Grants(st, bucket_name, grants) ==
    IF grants = <<>> THEN st
    ELSE LET grant == Head(grants)
             grantee == GetOr(grant, "Grantee", <<>>)
             permission == Get(grant, "Permission")
         IN  S3Grants(
                EmitIf(st, Get(grantee, "URI") = "http://acs.amazonaws.com/groups/global/AllUsers",
                       [Bucket |-> bucket_name,
                        Issue |-> "Bucket ACL allows public access (" \o permission \o ")."]),
                bucket_name, Tail(grants))

\* "Check public ACL access": no handler of its own
S3Acl(st, world, plan, bucket_name) ==
    S3Grants(Call(st, plan, "get_bucket_acl", bucket_name), bucket_name,
             GetOr(world["Acl"][bucket_name], "Grants", <<>>))

\* except botocore.exceptions.ClientError as e / except Exception as e of the
\* policy check: each logs (an error, but for NoSuchBucketPolicy) and goes on
PolicyStatusHandlers(st, bucket_name) ==
    Bind(st, LAMBDA s :
        IF IsClientError(s.exc)
        THEN IF ErrorCode(s.exc) = "NoSuchBucketPolicy"
             THEN [s EXCEPT !.exc = NoErr]
             ELSE [s EXCEPT !.exc = NoErr,
                            !.errlog = Append(@, "Error checking bucket policy for "
                                                 \o bucket_name \o ": " \o Str(s.exc))]
        ELSE [s EXCEPT !.exc = NoErr,
                       !.errlog = Append(@, "Unhandled error checking bucket policy for "
                                            \o bucket_name \o ": " \o Str(s.exc))])

\* "Check public bucket policy": a try of its own
S3PolicyStatus(st, world, plan, bucket_name) ==
    Bind(st, LAMBDA s0 :
        IF Raised(s0) THEN s0
        ELSE Bind(Call(s0, plan, "get_bucket_policy_status", bucket_name), LAMBDA s1 :
                IF Raised(s1) THEN PolicyStatusHandlers(s1, bucket_name)
                ELSE EmitIf(s1, TruthyFlag(world["PolicyStatus"][bucket_name]["PolicyStatus"],
                                           "IsPublic"),
                            [Bucket |-> bucket_name,
                             Issue |-> "Bucket policy allows public access."])))

\* EncryptionHandler that logs every client error, whatever its code
EncryptionHandlerLogOnly(st, bucket_name) ==
    Bind(st, LAMBDA s :
        IF IsClientError(s.exc)
        THEN [s EXCEPT !.exc = NoErr,
                       !.errlog = Append(@, "Error checking encryption for "
                                            \o bucket_name \o ": " \o Str(s.exc))]
        ELSE s)

\* except botocore.exceptions.ClientError as e of the encryption check; any
\* other exception stays in flight
EncryptionHandler(st, bucket_name) ==
    Bind(st, LAMBDA s :
        IF IsClientError(s.exc)
        THEN IF ErrorCode(s.exc) = "ServerSideEncryptionConfigurationNotFoundError"
             THEN Emit([s EXCEPT !.exc = NoErr],
                       [Bucket |-> bucket_name,
                        Issue |-> "No server-side encryption configured."])
             ELSE [s EXCEPT !.exc = NoErr,
                            !.errlog = Append(@, "Error checking encryption for "
                                                 \o bucket_name \o ": " \o Str(s.exc))]
        ELSE s)

\* S3Encryption with a scan that turns encryption on where it finds none
S3EncryptionRemediate(st, world, plan, bucket_name) ==
    Bind(st, LAMBDA s0 :
        IF Raised(s0) THEN s0
        ELSE Bind(Call(s0, plan, "get_bucket_encryption", bucket_name), LAMBDA s1 :
                IF Raised(s1) THEN EncryptionHandler(s1, bucket_name)
                ELSE IF world["Encryption"][bucket_name]
                             ["ServerSideEncryptionConfiguration"]["Rules"] = <<>>
                THEN Emit(Call(s1, plan, "put_bucket_encryption", bucket_name),
                          [Bucket |-> bucket_name,
                           Issue |-> "No server-side encryption configured."])
                ELSE s1))

\* "Check encryption at rest": a try of its own
S3Encryption(st, world, plan, bucket_name) ==
    Bind(st, LAMBDA s0 :
        IF Raised(s0) THEN s0
        ELSE Bind(Call(s0, plan, "get_bucket_encryption", bucket_name), LAMBDA s1 :
                IF Raised(s1) THEN EncryptionHandler(s1, bucket_name)
                ELSE EmitIf(s1, world["Encryption"][bucket_name]
                                     ["ServerSideEncryptionConfiguration"]["Rules"] = <<>>,
                            [Bucket |-> bucket_name,
                             Issue |-> "No server-side encryption configured."])))

\* S3Versioning with the test "versioning.get('Status') == 'Suspended'"
S3VersioningSuspendedOnly(st, world, plan, bucket_name) ==
    LET st1 == Call(st, plan, "get_bucket_versioning", bucket_name)
    IN  EmitIf(st1, Get(world["Versioning"][bucket_name], "Status") = "Suspended",
               [Bucket |-> bucket_name, Issue |-> "Bucket versioning is not enabled."])

\* "Check versioning configuration": no handler of its own
S3Versioning(st, world, plan, bucket_name) ==
    LET st1 == Call(st, plan, "get_bucket_versioning", bucket_name)
    IN  EmitIf(st1, Get(world["Versioning"][bucket_name], "Status") # "Enabled",
               [Bucket |-> bucket_name, Issue |-> "Bucket versioning is not enabled."])

\* S3Bucket with a handler per bucket that reports the error and lets the
\* loop go on with the next bucket
S3BucketGuarded(st, world, plan, bucket) ==
    LET bucket_name == bucket["Name"]
        st1 == S3Acl(st, world, plan, bucket_name)
        st2 == S3PolicyStatus(st1, world, plan, bucket_name)
        st3 == S3Encryption(st2, world, plan, bucket_name)
    IN  ExceptException(S3Versioning(st3, world, plan, bucket_name),
                        "Error scanning S3 buckets: ")

\* body of the loop over the buckets
S3Bucket(st, world, plan, bucket) ==
    LET bucket_name == bucket["Name"]
        st1 == S3Acl(st, world, plan, bucket_name)
        st2 == S3PolicyStatus(st1, world, plan, bucket_name)
        st3 == S3Encryption(st2, world, plan, bucket_name)
    IN  S3Versioning(st3, world, plan, bucket_name)

RECURSIVE S3Buckets(_, _, _, _)
S3Buckets(st, world, plan, buckets) ==
    IF buckets = <<>> THEN st
    ELSE S3Buckets(S3Bucket(st, world, plan, Head(buckets)), world, plan, Tail(buckets))

\* the try block of scan_s3_buckets
S3Try(world, plan) ==
    LET st1 == Call(NewScan, plan, "list_buckets", "")
    IN  S3Buckets(st1, world, plan, GetOr(world["ListBuckets"], "Buckets", <<>>))

scan_s3_buckets(world, plan) ==
    ExceptException(S3Try(world, plan), "Error scanning S3 buckets: ")

-----------------------------------------------------------------------------
(* AWSMisconfigurationScanner and the __main__ block *)

\* a Python dict, in insertion order: a sequence of [key, val]
Keys(d) == [i \in DOMAIN d |-> d[i].key]

InDict(d, k) == \E i \in DOMAIN d : d[i].key = k

DictGet(d, k) == d[CHOOSE i \in DOMAIN d : d[i].key = k].val

\* DictSet that puts a new key first
DictSetFront(d, k, v) ==
    IF InDict(d, k)
    THEN [i \in DOMAIN d |-> IF d[i].key = k THEN [key |-> k, val |-> v] ELSE d[i]]
    ELSE <<[key |-> k, val |-> v]>> \o d

\* d[k] = v: a new key goes last, an existing key keeps its place
DictSet(d, k, v) ==
    IF InDict(d, k)
    THEN [i \in DOMAIN d |-> IF d[i].key = k THEN [key |-> k, val |-> v] ELSE d[i]]
    ELSE Append(d, [key |-> k, val |-> v])

NoOrch == [constructed |-> FALSE]

\* the attributes __init__ sets: one scanner per service, each holding the
\* boto3 client of the service it reads
NewOrchestrator ==
    [constructed |-> TRUE,
     ec2_scanner |-> [client |-> "ec2"],
     iam_scanner |-> [client |-> "iam"],
     lambda_scanner |-> [client |-> "lambda"],
     rds_scanner |-> [client |-> "rds"],
     sg_scanner |-> [client |-> "ec2"],
     s3_scanner |-> [client |-> "s3"]]

\* the keys of the report, in the order run_all_scans assigns them
ScanOrder == <<"EC2", "IAM", "Lambda", "RDS", "SecurityGroups", "S3">>

Scanners == {ScanOrder[i] : i \in DOMAIN ScanOrder}

\* the scan method run_all_scans calls for each key
Scan(key, world, plan) ==
    CASE key = "EC2" -> scan_ec2_instances(world, plan)
      [] key = "IAM" -> run_all_checks(world, plan)
      [] key = "Lambda" -> scan_lambda_functions(world, plan)
      [] key = "RDS" -> scan_rds_instances(world, plan)
      [] key = "SecurityGroups" -> scan_security_groups(world, plan)
      [] key = "S3" -> scan_s3_buckets(world, plan)

\* the try block of the scan method of each key, before its handler
Try(key, world, plan) ==
    CASE key = "EC2" -> EC2Try(world, plan)
      [] key = "IAM" -> IAMTry(world, plan)
      [] key = "Lambda" -> LambdaTry(world, plan)
      [] key = "RDS" -> RDSTry(world, plan)
      [] key = "SecurityGroups" -> SGTry(world, plan)
      [] key = "S3" -> S3Try(world, plan)

\* list/describe/get operations read the provider's configuration
HasPrefix(s, p) == Len(s) >= Len(p) /\ SubSeq(s, 1, Len(p)) = p

IsReadOp(op) == HasPrefix(op, "list_") \/ HasPrefix(op, "describe_") \/ HasPrefix(op, "get_")

\* what one call does to the provider's configuration: a read leaves it as
\* it is, any other operation replaces the configuration of that scanner
ProviderAfterCall(config, key, call) ==
    IF IsReadOp(call.op) THEN config
    ELSE [config EXCEPT ![key] = [modified_by |-> call.op]]

RECURSIVE ProviderAfter(_, _, _)
ProviderAfter(config, key, cs) ==
    IF cs = <<>> THEN config
    ELSE ProviderAfter(ProviderAfterCall(config, key, Head(cs)), key, Tail(cs))

TagCalls(key, cs) == [i \in DOMAIN cs |-> [scanner |-> key, op |-> cs[i].op, arg |-> cs[i].arg]]

\* scanner = AWSMisconfigurationScanner(), by __main__ or by another caller
\* that wants a fresh object for its next run
Construct ==
    /\ \/ pc = "start"
       \/ pc = "returned" /\ Len(reports) < MaxRuns
    /\ orch' = NewOrchestrator
    /\ pc' = "constructed"
    /\ UNCHANGED <<provider, faults, findings, reports, calls, errorLog, stdout, exitCode>>

\* entry of run_all_scans: findings = {}
StartRun ==
    /\ \/ pc = "constructed"
       \/ pc = "returned" /\ Len(reports) < MaxRuns
    /\ orch.constructed
    /\ findings' = <<>>
    /\ calls' = <<>>
    /\ pc' = ScanOrder[1]
    /\ UNCHANGED <<provider, faults, orch, reports, errorLog, stdout, exitCode>>

\* RunScanner with a run that stops at the first scan that reports an error
RunScannerAbort(key, next) ==
    /\ pc = key
    /\ LET r == Scan(key, provider[key], faults[key])
       IN  /\ calls' = calls \o TagCalls(key, r.calls)
           /\ errorLog' = errorLog \o r.errlog
           /\ provider' = ProviderAfter(provider, key, r.calls)
           /\ findings' = DictSet(findings, key, r.findings)
           /\ pc' = IF \E i \in DOMAIN r.findings : HasKey(r.findings[i], "Error")
                    THEN "return" ELSE next
    /\ UNCHANGED <<faults, orch, reports, stdout, exitCode>>

\* findings[key] = self.<scanner>.<scan method>(); an exception that leaves
\* the scan method leaves run_all_scans and __main__ too
RunScanner(key, next) ==
    /\ pc = key
    /\ LET r == Scan(key, provider[key], faults[key])
       IN  /\ calls' = calls \o TagCalls(key, r.calls)
           /\ errorLog' = errorLog \o r.errlog
           /\ provider' = ProviderAfter(provider, key, r.calls)
           /\ IF Raised(r)
              THEN /\ pc' = "crashed"
                   /\ exitCode' = 1
                   /\ UNCHANGED findings
              ELSE /\ pc' = next
                   /\ findings' = DictSet(findings, key, r.findings)
                   /\ UNCHANGED exitCode
    /\ UNCHANGED <<faults, orch, reports, stdout>>

RunEC2 == RunScanner("EC2", "IAM")

RunIAM == RunScanner("IAM", "Lambda")

RunLambda == RunScanner("Lambda", "RDS")

RunRDS == RunScanner("RDS", "SecurityGroups")

RunSG == RunScanner("SecurityGroups", "S3")

RunS3 == RunScanner("S3", "return")

\* return findings
ReturnRun ==
    /\ pc = "return"
    /\ reports' = Append(reports, findings)
    /\ pc' = "returned"
    /\ UNCHANGED <<provider, faults, orch, findings, calls, errorLog, stdout, exitCode>>

\* the lines printed for one service of the report
ServiceLines(service, service_findings) ==
    <<[line |-> "\nService: " \o service]>>
    \o (IF service_findings = <<>>
        THEN <<[line |-> "  No misconfigurations found."]>>
        ELSE [i \in DOMAIN service_findings |-> [line |-> "  - ", finding |-> service_findings[i]]])

RECURSIVE SummaryLines(_)
SummaryLines(results) ==
    IF results = <<>> THEN <<>>
    ELSE ServiceLines(Head(results).key, Head(results).val) \o SummaryLines(Tail(results))

\* the __main__ block after run_all_scans has returned; the process then ends
PrintSummary ==
    /\ pc = "returned"
    /\ stdout' = stdout \o <<[line |-> "\n=== Misconfiguration Findings Summary ===\n"]>>
                        \o SummaryLines(reports[Len(reports)])
    /\ exitCode' = 0
    /\ pc' = "done"
    /\ UNCHANGED <<provider, faults, orch, findings, reports, calls, errorLog>>

Next ==
    \/ Construct
    \/ StartRun
    \/ RunEC2
    \/ RunIAM
    \/ RunLambda
    \/ RunRDS
    \/ RunSG
    \/ RunS3
    \/ ReturnRun
    \/ PrintSummary

-----------------------------------------------------------------------------
(* Provider snapshots and fault plans the behaviours start from *)

\* sequences over S of length 0..n
RECURSIVE SeqsUpTo(_, _)
SeqsUpTo(S, n) ==
    IF n = 0 THEN {<<>>}
    ELSE LET shorter == SeqsUpTo(S, n - 1)
         IN  shorter \cup {Append(q, x) : q \in {r \in shorter : Len(r) = n - 1}, x \in S}

\* an account with resources that trip every rule, and some that trip none
SampleProvider ==
    [EC2 |-> [Reservations |-> <<[Instances |-> <<[InstanceId |-> "i-1", PublicIpAddress |-> "1.2.3.4"],
                                                   [InstanceId |-> "i-2"]>>]>>],
     IAM |-> [AccountSummary |-> [SummaryMap |-> [AccountMFAEnabled |-> 0]],
              PolicyPages |-> <<[Policies |-> <<[PolicyName |-> "p1", Arn |-> "arn:p1",
                                                 DefaultVersionId |-> "v1"]>>]>>,
              PolicyVersions |-> [a \in {"arn:p1"} |->
                  [PolicyVersion |-> [Document |-> [Statement |->
                      [isList |-> FALSE,
                       v |-> [Effect |-> "Allow", Action |-> "*", Resource |-> "*"]]]]]],
              Users |-> [Users |-> <<[UserName |-> "alice"]>>],
              AccessKeys |-> [u \in {"alice"} |-> [AccessKeyMetadata |-> <<[AccessKeyId |-> "AKIA1"]>>]],
              LastUsed |-> [k \in {"AKIA1"} |-> [AccessKeyLastUsed |-> [Region |-> "N/A"]]],
              AttachedUserPolicies |-> [u \in {"alice"} |->
                  [AttachedPolicies |-> <<[PolicyName |-> "AdministratorAccess"]>>]],
              RolePages |-> <<[Roles |-> <<[RoleName |-> "r1"]>>]>>,
              AttachedRolePolicies |-> [r \in {"r1"} |->
                  [AttachedPolicies |-> <<[PolicyName |-> "ReadOnlyAccess"]>>]]],
     Lambda |-> [Pages |-> <<[Functions |-> <<[FunctionName |-> "fn-1"]>>]>>,
                 Concurrency |-> [f \in {"fn-1"} |-> [ReservedConcurrentExecutions |-> 5]],
                 Policy |-> [f \in {"fn-1"} |-> [Policy |-> "{}"]]],
     RDS |-> [DBInstances |-> <<[DBInstanceIdentifier |-> "db-1", PubliclyAccessible |-> TRUE,
                                 StorageEncrypted |-> FALSE, BackupRetentionPeriod |-> 0],
                                [DBInstanceIdentifier |-> "db-2", PubliclyAccessible |-> FALSE,
                                 StorageEncrypted |-> TRUE, BackupRetentionPeriod |-> 7]>>],
     SecurityGroups |-> [SecurityGroups |-> <<[GroupId |-> "sg-1", IpPermissions |->
                            <<[FromPort |-> 22, ToPort |-> 22,
                               IpRanges |-> <<[CidrIp |-> "0.0.0.0/0"]>>]>>]>>],
     S3 |-> [ListBuckets |-> [Buckets |-> <<[Name |-> "b1"]>>],
             Acl |-> [b \in {"b1"} |-> [Grants |->
                        <<[Grantee |-> [URI |-> "http://acs.amazonaws.com/groups/global/AllUsers"],
                           Permission |-> "READ"]>>]],
             PolicyStatus |-> [b \in {"b1"} |-> [PolicyStatus |-> [IsPublic |-> FALSE]]],
             Encryption |-> [b \in {"b1"} |-> [ServerSideEncryptionConfiguration |-> [Rules |-> <<>>]]],
             Versioning |-> [b \in {"b1"} |-> [Status |-> "Enabled"]]]]

\* an account with no resources at all
EmptyProvider ==
    [EC2 |-> [Reservations |-> <<>>],
     IAM |-> [AccountSummary |-> [SummaryMap |-> [AccountMFAEnabled |-> 1]],
              PolicyPages |-> <<[Policies |-> <<>>]>>,
              PolicyVersions |-> <<>>,
              Users |-> [Users |-> <<>>],
              AccessKeys |-> <<>>,
              LastUsed |-> <<>>,
              AttachedUserPolicies |-> <<>>,
              RolePages |-> <<[Roles |-> <<>>]>>,
              AttachedRolePolicies |-> <<>>],
     Lambda |-> [Pages |-> <<[Functions |-> <<>>]>>, Concurrency |-> <<>>, Policy |-> <<>>],
     RDS |-> [DBInstances |-> <<>>],
     SecurityGroups |-> [SecurityGroups |-> <<>>],
     S3 |-> [ListBuckets |-> [Buckets |-> <<>>],
             Acl |-> <<>>, PolicyStatus |-> <<>>, Encryption |-> <<>>, Versioning |-> <<>>]]

\* the errors the fault plans raise: permission denied, throttling, transport
FaultErrors == {AccessDenied, Throttling, EndpointConnectionError}

NoFaults == <<>>

\* the plan in which call number k raises e and the calls before it return
SingleFault(k, e) == [i \in 1..k |-> IF i = k THEN e ELSE NoErr]

\* number of provider calls of the scan when none raises
NCalls(key, world) == Len(Try(key, world, NoFaults).calls)

\* no fault, or one fault e at a call the scan makes, up to call number maxAt
Plans(key, world, e, maxAt) ==
    {NoFaults} \cup {SingleFault(k, e) : k \in 1..Min(maxAt, NCalls(key, world))}

FaultPlans(config, e, maxAt) ==
    [EC2 : Plans("EC2", config["EC2"], e, maxAt),
     IAM : Plans("IAM", config["IAM"], e, maxAt),
     Lambda : Plans("Lambda", config["Lambda"], e, maxAt),
     RDS : Plans("RDS", config["RDS"], e, maxAt),
     SecurityGroups : Plans("SecurityGroups", config["SecurityGroups"], e, maxAt),
     S3 : Plans("S3", config["S3"], e, maxAt)]

NoFaultPlan == [key \in Scanners |-> NoFaults]

\* the program before scanner = AWSMisconfigurationScanner()
ProgramStart ==
    /\ pc = "start"
    /\ orch = NoOrch
    /\ findings = <<>>
    /\ reports = <<>>
    /\ calls = <<>>
    /\ errorLog = <<>>
    /\ stdout = <<>>
    /\ exitCode = -1

Init ==
    /\ ProgramStart
    /\ provider \in {SampleProvider, EmptyProvider}
    /\ \E e \in FaultErrors : faults \in FaultPlans(provider, e, MaxFaultAt)

Spec == Init /\ [][Next]_vars

\* the program is sequential and every provider call returns or raises, so
\* a step that is enabled is eventually taken
FairSpec == Init /\ [][Next]_vars /\ WF_vars(Next)

-----------------------------------------------------------------------------
(* Snapshots that vary the resources the per-rule claims are about *)

OpenCidr == "0.0.0.0/0"

RangeChoices == {[CidrIp |-> OpenCidr], [CidrIp |-> "10.0.0.0/8"]}

\* both ports, no port (all protocols), or FromPort without ToPort
PortChoices ==
    {[FromPort |-> 22, ToPort |-> 22], [FromPort |-> 8080, ToPort |-> 8080],
     <<>>, [FromPort |-> 22]}

PermissionChoices ==
    {ports @@ [IpRanges |-> ranges] :
        ports \in PortChoices, ranges \in SeqsUpTo(RangeChoices, MaxRanges)}

\* SSH and port 8080, each open to the world
PermissionFollowers ==
    {[FromPort |-> 22, ToPort |-> 22, IpRanges |-> <<[CidrIp |-> OpenCidr]>>],
     [FromPort |-> 8080, ToPort |-> 8080, IpRanges |-> <<[CidrIp |-> OpenCidr]>>]}

\* group sg-1 with up to MaxPerms permissions, the first any of
\* PermissionChoices, then a group with RDP open
SGWorlds ==
    {[SecurityGroups |->
        <<[GroupId |-> "sg-1", IpPermissions |-> permissions],
          [GroupId |-> "sg-2", IpPermissions |->
              <<[FromPort |-> 3389, ToPort |-> 3389, IpRanges |-> <<[CidrIp |-> OpenCidr]>>]>>]>>] :
        permissions \in {<<>>} \cup {<<a>> \o rest : a \in PermissionChoices,
                                         rest \in SeqsUpTo(PermissionFollowers, MaxPerms - 1)}}

AllUsersURI == "http://acs.amazonaws.com/groups/global/AllUsers"

GrantChoices ==
    {[Grantee |-> [URI |-> AllUsersURI], Permission |-> "READ"],
     [Grantee |-> [URI |-> AllUsersURI], Permission |-> "WRITE"],
     [Grantee |-> [ID |-> "owner"], Permission |-> "FULL_CONTROL"]}

\* the sample bucket with up to MaxGrants ACL grants
S3GrantWorlds ==
    {[SampleProvider["S3"] EXCEPT !["Acl"] = [b \in {"b1"} |-> [Grants |-> grants]]] :
        grants \in SeqsUpTo(GrantChoices, MaxGrants)}

StatementChoices ==
    {[Effect |-> "Allow", Action |-> "*", Resource |-> "*"],
     [Effect |-> "Allow", Action |-> "s3:GetObject", Resource |-> "*"],
     [Effect |-> "Deny", Action |-> "*", Resource |-> "*"]}

\* the sample policy with one statement, or a list of up to MaxStatements
IAMStatementWorlds ==
    {[SampleProvider["IAM"] EXCEPT !["PolicyVersions"] =
        [a \in {"arn:p1"} |-> [PolicyVersion |-> [Document |-> [Statement |-> statement]]]]] :
        statement \in {[isList |-> FALSE, v |-> smt] : smt \in StatementChoices}
                      \cup {[isList |-> TRUE, v |-> smts] :
                                smts \in SeqsUpTo(StatementChoices, MaxStatements)}}

InitRules ==
    /\ ProgramStart
    /\ provider \in {[SampleProvider EXCEPT !["SecurityGroups"] = w] : w \in SGWorlds}
                    \cup {[SampleProvider EXCEPT !["S3"] = w] : w \in S3GrantWorlds}
                    \cup {[SampleProvider EXCEPT !["IAM"] = w] : w \in IAMStatementWorlds}
    /\ faults = NoFaultPlan

SpecRules == InitRules /\ [][Next]_vars

-----------------------------------------------------------------------------
(* Notions the properties are stated with *)

LastReport == reports[Len(reports)]

IsIssueEntry(f) == HasKey(f, "Issue") /\ ~HasKey(f, "Error")

IsErrorEntry(f) == HasKey(f, "Error") /\ ~HasKey(f, "Issue")

ErrorCount(list) == Cardinality({i \in DOMAIN list : HasKey(list[i], "Error")})

IssueCount(list) == Cardinality({i \in DOMAIN list : HasKey(list[i], "Issue")})

Front(q) == SubSeq(q, 1, Len(q) - 1)

IsPrefix(a, b) == Len(a) <= Len(b) /\ SubSeq(b, 1, Len(a)) = a

\* the calls the scan of key issues, and those of them that raise
CallsOfScan(key) == Scan(key, provider[key], faults[key]).calls

\* the exception that call number i of the scan of key raises
ExceptionOf(key, i) == Raise(FaultAt(faults[key], i), CallsOfScan(key)[i].op)

RaisingCalls(key) ==
    {i \in DOMAIN CallsOfScan(key) : FaultAt(faults[key], i) # NoErr}

\* an exception that a handler inside the S3 bucket loop takes
Absorbed(call, e) ==
    \/ call.op = "get_bucket_policy_status"
    \/ call.op = "get_bucket_encryption" /\ IsClientError(e)

\* the calls whose exception reaches the handler of the scan method
FailingCalls(key) ==
    {i \in RaisingCalls(key) : ~Absorbed(CallsOfScan(key)[i], FaultAt(faults[key], i))}

ScanFailed(key) == FailingCalls(key) # {}

FirstOf(S) == CHOOSE i \in S : \A j \in S : i <= j

\* the calls run_all_scans has issued when the first n scans have returned
RECURSIVE ExpectedCalls(_)
ExpectedCalls(n) ==
    IF n = 0 THEN <<>>
    ELSE ExpectedCalls(n - 1) \o TagCalls(ScanOrder[n], CallsOfScan(ScanOrder[n]))

Scanning == pc \in Scanners \cup {"return", "returned"}

-----------------------------------------------------------------------------
(* C1: whichever provider calls raise, run_all_scans runs all six scans and *)
(* returns a report with all six keys, no exception leaves a scan method,   *)
(* and a service none of whose calls raised has the findings it has when    *)
(* no call raises at all.                                                   *)
C1_FailureIsolation ==
    /\ pc # "crashed"
    /\ pc = "returned" =>
        /\ \A k \in Scanners : InDict(LastReport, k)
        /\ \A k \in Scanners : \E i \in DOMAIN calls : calls[i].scanner = k
        /\ \A k \in Scanners :
              RaisingCalls(k) = {} =>
                  DictGet(LastReport, k) = Scan(k, provider[k], NoFaults).findings

\* a run returned in which EC2 and IAM failed and S3, untouched, has findings
C1_Witness ==
    /\ pc = "returned"
    /\ ScanFailed("EC2") /\ ScanFailed("IAM")
    /\ RaisingCalls("S3") = {} /\ DictGet(LastReport, "S3") # <<>>

(* C2: run_all_scans invokes the six scanners once each, one after the      *)
(* other in the order EC2, IAM, Lambda, RDS, SecurityGroups, S3, and the    *)
(* report has exactly these keys in that order.                             *)
C2_FixedOrder ==
    /\ \A i \in DOMAIN ScanOrder :
          pc = ScanOrder[i] => Keys(findings) = SubSeq(ScanOrder, 1, i - 1)
    /\ pc = "return" => Keys(findings) = ScanOrder
    /\ pc = "returned" => Keys(LastReport) = ScanOrder
    /\ Scanning => calls = ExpectedCalls(Len(findings))

\* the sixth scan has returned after a failure of the third
C2_Witness ==
    /\ pc = "return"
    /\ ScanFailed("Lambda")
    /\ Len(calls) > Len(ScanOrder)

(* C3: in every scanner, a provider call that raises leaves exactly one     *)
(* error entry in the returned list, after the findings that were appended  *)
(* before it; also for the per-bucket S3 calls.                             *)
C3_OneErrorPerRaisedCall ==
    \A k \in Scanners :
        (InDict(findings, k) /\ RaisingCalls(k) # {}) =>
            LET list == DictGet(findings, k)
            IN  /\ ErrorCount(list) = 1
                /\ list[Len(list)] = [Error |-> Str(ExceptionOf(k, FirstOf(RaisingCalls(k))))]

(* C7: every entry of every list of a returned report has key 'Issue' or    *)
(* key 'Error' and never both, and the list of a service whose scan failed  *)
(* is not empty.                                                            *)
C7_IssueOrError ==
    \A r \in DOMAIN reports : \A k \in Scanners :
        LET list == DictGet(reports[r], k)
        IN  /\ \A i \in DOMAIN list : IsIssueEntry(list[i]) \/ IsErrorEntry(list[i])
            /\ ScanFailed(k) => list # <<>>

\* a report where the RDS scan failed at its listing call (one error entry,
\* nothing else) next to an IAM list that holds issue findings
C7_Witness ==
    /\ reports # <<>>
    /\ ScanFailed("RDS") /\ DictGet(LastReport, "RDS") = <<[Error |-> Str(Raise(AccessDenied, "describe_db_instances"))]>>
    /\ IssueCount(DictGet(LastReport, "IAM")) > 0

\* the summary names every service
SummaryPrinted ==
    \A k \in Scanners : \E i \in DOMAIN stdout : stdout[i] = [line |-> "\nService: " \o k]

(* C8: once the orchestrator is constructed, run_all_scans returns and the  *)
(* program prints the summary of all six services and ends with exit code   *)
(* 0, whatever was found and whichever services failed.                     *)
C8_Terminates ==
    (pc = "constructed") ~> (pc = "done" /\ exitCode = 0 /\ SummaryPrinted)

\* the program has ended normally after a run in which two services failed
C8_Witness ==
    /\ pc = "done" /\ exitCode = 0 /\ SummaryPrinted
    /\ ScanFailed("SecurityGroups") /\ ScanFailed("S3")

(* C9: for a fixed snapshot and fault plan, every call of run_all_scans,    *)
(* on the same orchestrator or a new one, returns the same report.          *)
C9_Deterministic ==
    \A i, j \in DOMAIN reports : reports[i] = reports[j]

\* a second run has returned a report with findings and an error entry
C9_Witness ==
    /\ Len(reports) = 2
    /\ IssueCount(DictGet(reports[2], "EC2")) > 0
    /\ ErrorCount(DictGet(reports[2], "Lambda")) > 0

(* C10: every provider operation a scan issues is a list, describe or get   *)
(* operation, and no step changes the provider's configuration.             *)
C10_ReadOnly ==
    [][/\ provider' = provider
       /\ \A i \in DOMAIN calls' : IsReadOp(calls'[i].op)]_vars

\* a run has returned in which the IAM scan failed part-way
C10_Witness ==
    /\ pc = "returned"
    /\ ScanFailed("IAM") /\ Len(DictGet(LastReport, "IAM")) >= 2
    /\ \A k \in Scanners : \E i \in DOMAIN calls : calls[i].scanner = k

-----------------------------------------------------------------------------
(* Properties of the rules, checked on snapshots that vary the resources *)

CountWhere(list, P(_)) == Cardinality({i \in DOMAIN list : P(list[i])})

HasIssuePrefix(f, prefix) == HasKey(f, "Issue") /\ HasPrefix(f["Issue"], prefix)

SGList == DictGet(findings, "SecurityGroups")

SGDone == InDict(findings, "SecurityGroups")

GroupsOf(config) == config["SecurityGroups"]["SecurityGroups"]

\* the <<permission, range>> places of a group that satisfy P
RangesWhere(sg, P(_, _)) ==
    {<<i, j>> \in (DOMAIN sg["IpPermissions"]) \X (1..MaxRanges + 1) :
        /\ j \in DOMAIN sg["IpPermissions"][i]["IpRanges"]
        /\ P(sg["IpPermissions"][i], sg["IpPermissions"][i]["IpRanges"][j])}

IsOpenRange(permission, ip_range) == ip_range["CidrIp"] = OpenCidr

IsOpenDangerousRange(permission, ip_range) ==
    /\ ip_range["CidrIp"] = OpenCidr
    /\ HasKey(permission, "FromPort")
    /\ permission["FromPort"] \in DANGEROUS_PORTS

\* rules per service, as the rule table counts them
RuleCount == [EC2 |-> 1, IAM |-> 5, Lambda |-> 3, RDS |-> 3, SecurityGroups |-> 2, S3 |-> 4]

(* C4 as claimed: a resource has at most one finding per rule, so a scan    *)
(* returns at most resources x rules findings; also for a bucket with       *)
(* several AllUsers grants, a security group with several permissions or    *)
(* IP ranges, and a policy with several matching statements.                *)
C4_OneFindingPerResourcePerRule ==
    /\ InDict(findings, "S3") =>
          LET list == DictGet(findings, "S3")
              buckets == provider["S3"]["ListBuckets"]["Buckets"]
          IN  /\ \A b \in DOMAIN buckets :
                    CountWhere(list, LAMBDA f :
                        /\ HasIssuePrefix(f, "Bucket ACL allows public access")
                        /\ f["Bucket"] = buckets[b]["Name"]) <= 1
              /\ IssueCount(list) <= Len(buckets) * RuleCount["S3"]
    /\ SGDone =>
          /\ \A g \in DOMAIN GroupsOf(provider) : \A prefix \in {"Ports ", "Dangerous port "} :
                CountWhere(SGList, LAMBDA f :
                    /\ HasIssuePrefix(f, prefix)
                    /\ f["SecurityGroup"] = GroupsOf(provider)[g]["GroupId"]) <= 1
          /\ IssueCount(SGList) <= Len(GroupsOf(provider)) * RuleCount["SecurityGroups"]
    /\ InDict(findings, "IAM") =>
          \A name \in {"p1"} :
              CountWhere(DictGet(findings, "IAM"), LAMBDA f :
                  HasKey(f, "PolicyName") /\ f["PolicyName"] = name) <= 1

(* C5 as claimed: a 'Dangerous port' finding is emitted for an IP range     *)
(* only when its CIDR is 0.0.0.0/0 and the port of its permission is one    *)
(* of the dangerous ports; a group whose ranges are all restricted has no   *)
(* finding.                                                                 *)
C5_DangerousOnlyWhenOpen ==
    SGDone =>
        \A g \in DOMAIN GroupsOf(provider) :
            LET sg == GroupsOf(provider)[g]
                tagged(f) == HasKey(f, "SecurityGroup") /\ f["SecurityGroup"] = sg["GroupId"]
            IN  /\ CountWhere(SGList, LAMBDA f : tagged(f) /\ HasIssuePrefix(f, "Dangerous port "))
                       <= Cardinality(RangesWhere(sg, IsOpenDangerousRange))
                /\ RangesWhere(sg, IsOpenRange) = {} => CountWhere(SGList, tagged) = 0

\* every permission of every group has both ports, equal, and the single
\* IP range 0.0.0.0/0
AllSingleOpenRange(config) ==
    \A g \in DOMAIN GroupsOf(config) :
        \A i \in DOMAIN GroupsOf(config)[g]["IpPermissions"] :
            LET permission == GroupsOf(config)[g]["IpPermissions"][i]
            IN  /\ HasKey(permission, "FromPort") /\ HasKey(permission, "ToPort")
                /\ permission["FromPort"] = permission["ToPort"]
                /\ permission["IpRanges"] = <<[CidrIp |-> OpenCidr]>>

\* what C6 says the scan emits for one such permission on port p
TwoOrOneFindings(sg_id, p) ==
    <<[SecurityGroup |-> sg_id,
       Issue |-> "Ports " \o ToString(p) \o "-" \o ToString(p) \o " open to the world (0.0.0.0/0)"]>>
    \o (IF p \in {22, 3389, 3306, 5432, 80, 443}
        THEN <<[SecurityGroup |-> sg_id,
                Issue |-> "Dangerous port " \o ToString(p) \o " open to the world (0.0.0.0/0)"]>>
        ELSE <<>>)

ExpectedSGFindings(config) ==
    Flatten([g \in DOMAIN GroupsOf(config) |->
        Flatten([i \in DOMAIN GroupsOf(config)[g]["IpPermissions"] |->
            TwoOrOneFindings(GroupsOf(config)[g]["GroupId"],
                             GroupsOf(config)[g]["IpPermissions"][i]["FromPort"])])])

(* C6: for a permission with FromPort = ToPort = p and the single range     *)
(* 0.0.0.0/0 the scan emits, tagged with the group id, the open-to-the-     *)
(* world finding and then, if p is a dangerous port, the dangerous-port     *)
(* finding, and nothing else.                                               *)
C6_OpenThenDangerous ==
    (SGDone /\ AllSingleOpenRange(provider)) => SGList = ExpectedSGFindings(provider)

\* sg-1 scanned with SSH and 8080 open to the world, sg-2 with RDP
C6_Witness ==
    /\ SGDone /\ AllSingleOpenRange(provider)
    /\ Len(GroupsOf(provider)[1]["IpPermissions"]) = 2
    /\ GroupsOf(provider)[1]["IpPermissions"][1]["FromPort"] = 22
    /\ GroupsOf(provider)[1]["IpPermissions"][2]["FromPort"] = 8080
    /\ Len(SGList) = 5

-----------------------------------------------------------------------------
(* Snapshots that vary the resources of one service, no provider call raises *)

\* the responses q with the identifier prefix<n> under key in the nth
Numbered(q, key, prefix) == [n \in DOMAIN q |-> (key :> (prefix \o ToString(n))) @@ q[n]]

\* a first resource from choices, then up to n - 1 resources from followers
VariedHead(choices, followers, n) ==
    {<<>>} \cup {<<a>> \o rest : a \in choices, rest \in SeqsUpTo(followers, n - 1)}

\* a public IP address, no PublicIpAddress key, an empty address
InstanceChoices == {[PublicIpAddress |-> "1.2.3.4"], <<>>, [PublicIpAddress |-> ""]}

\* the instances in one reservation, or in two with the second from k + 1 on
Reservations(instances, k) ==
    IF k = 0 THEN <<[Instances |-> instances]>>
    ELSE <<[Instances |-> SubSeq(instances, 1, k)],
           [Instances |-> SubSeq(instances, k + 1, Len(instances))]>>

\* no reservation, or up to MaxInstances instances i-1, i-2, ... in one or
\* two reservations
EC2Worlds ==
    {[Reservations |-> <<>>]}
    \cup UNION {{[Reservations |-> Reservations(Numbered(q, "InstanceId", "i-"), k)] :
                    k \in 0..Len(q)} :
                q \in SeqsUpTo(InstanceChoices, MaxInstances)}

\* an attribute that is missing, or has one of the values
Optional(key, values) == {<<>>} \cup {key :> v : v \in values}

\* every combination of the three attributes the RDS rules read, each
\* present or missing
DBInstanceChoices ==
    {a @@ b @@ c : a \in Optional("PubliclyAccessible", {TRUE, FALSE}),
                   b \in Optional("StorageEncrypted", {TRUE, FALSE}),
                   c \in Optional("BackupRetentionPeriod", {0, 7})}

\* an instance that trips every rule, one that trips none, one without attributes
DBInstanceFollowers ==
    {[PubliclyAccessible |-> TRUE, StorageEncrypted |-> FALSE, BackupRetentionPeriod |-> 0],
     [PubliclyAccessible |-> FALSE, StorageEncrypted |-> TRUE, BackupRetentionPeriod |-> 7],
     <<>>}

\* up to MaxDBInstances instances db-1, db-2, ...
RDSWorlds ==
    {[DBInstances |-> Numbered(q, "DBInstanceIdentifier", "db-")] :
        q \in VariedHead(DBInstanceChoices, DBInstanceFollowers, MaxDBInstances)}

OwnerGrant == [Grantee |-> [ID |-> "owner"], Permission |-> "FULL_CONTROL"]

PublicReadGrant == [Grantee |-> [URI |-> AllUsersURI], Permission |-> "READ"]

SSERule == [ApplyServerSideEncryptionByDefault |-> [SSEAlgorithm |-> "AES256"]]

\* what the four per-bucket calls return for one bucket
BucketChoices ==
    [Acl : {<<>>, [Grants |-> <<>>], [Grants |-> <<OwnerGrant>>],
            [Grants |-> <<OwnerGrant, PublicReadGrant>>]},
     PolicyStatus : {[PolicyStatus |-> p] : p \in Optional("IsPublic", {TRUE, FALSE})},
     Encryption : {[ServerSideEncryptionConfiguration |-> [Rules |-> rules]] :
                      rules \in {<<>>, <<SSERule>>}},
     Versioning : Optional("Status", {"Enabled", "Suspended"})]

\* a bucket that trips no rule, and one that trips every rule
BucketFollowers ==
    {[Acl |-> [Grants |-> <<OwnerGrant>>],
      PolicyStatus |-> [PolicyStatus |-> [IsPublic |-> FALSE]],
      Encryption |-> [ServerSideEncryptionConfiguration |-> [Rules |-> <<SSERule>>]],
      Versioning |-> [Status |-> "Enabled"]],
     [Acl |-> [Grants |-> <<PublicReadGrant>>],
      PolicyStatus |-> [PolicyStatus |-> [IsPublic |-> TRUE]],
      Encryption |-> [ServerSideEncryptionConfiguration |-> [Rules |-> <<>>]],
      Versioning |-> [Status |-> "Suspended"]]}

BucketName(n) == "b" \o ToString(n)

BucketNames(q) == {BucketName(n) : n \in DOMAIN q}

BucketIndex(name, q) == CHOOSE n \in DOMAIN q : BucketName(n) = name

\* the S3 responses for the buckets b1, b2, ... with the responses of q
S3World(q) ==
    [ListBuckets |-> [Buckets |-> [n \in DOMAIN q |-> [Name |-> BucketName(n)]]],
     Acl |-> [b \in BucketNames(q) |-> q[BucketIndex(b, q)].Acl],
     PolicyStatus |-> [b \in BucketNames(q) |-> q[BucketIndex(b, q)].PolicyStatus],
     Encryption |-> [b \in BucketNames(q) |-> q[BucketIndex(b, q)].Encryption],
     Versioning |-> [b \in BucketNames(q) |-> q[BucketIndex(b, q)].Versioning]]

\* up to MaxBuckets buckets
S3Worlds == {S3World(q) : q \in VariedHead(BucketChoices, BucketFollowers, MaxBuckets)}

\* q has no element twice
Distinct(q) == \A i, j \in DOMAIN q : q[i] = q[j] => i = j

AwsAdministratorAccess ==
    [PolicyName |-> "AdministratorAccess",
     PolicyArn |-> "arn:aws:iam::aws:policy/AdministratorAccess"]

\* a customer managed policy with the name of the AWS managed one
LocalAdministratorAccess ==
    [PolicyName |-> "AdministratorAccess",
     PolicyArn |-> "arn:aws:iam::111122223333:policy/AdministratorAccess"]

AttachedPolicyChoices ==
    {AwsAdministratorAccess, LocalAdministratorAccess,
     [PolicyName |-> "ReadOnlyAccess", PolicyArn |-> "arn:aws:iam::aws:policy/ReadOnlyAccess"],
     [PolicyName |-> "AdministratorAccess-Amplify",
      PolicyArn |-> "arn:aws:iam::aws:policy/AdministratorAccess-Amplify"]}

\* up to MaxAttached different policies attached to one user or role
AttachedChoices == {q \in SeqsUpTo(AttachedPolicyChoices, MaxAttached) : Distinct(q)}

\* AccessKeyLastUsed of a key: never used, used yesterday, or last used one
\* day more than the inactivity threshold ago (the date as its age in days)
LastUsedChoices ==
    {[ServiceName |-> "N/A", Region |-> "N/A"],
     [LastUsedDate |-> [days_ago |-> 1], ServiceName |-> "s3", Region |-> "us-east-1"],
     [LastUsedDate |-> [days_ago |-> DefaultThresholdDays + 1],
      ServiceName |-> "s3", Region |-> "us-east-1"]}

\* a user or role: its attached policies and, for a user, the
\* AccessKeyLastUsed of each of its access keys
Principal(attached, keys) == [attached |-> attached, keys |-> keys]

UserName(n) == "user" \o ToString(n)

RoleName(n) == "role" \o ToString(n)

KeyId(n, k) == "AKIA" \o ToString(n) \o ToString(k)

KeyPlaces(users) == {<<n, k>> \in (DOMAIN users) \X (1..MaxKeys + 1) : k \in DOMAIN users[n].keys}

\* the IAM responses for the users user1, user2, ... and roles role1, ...;
\* account summary and policies as in the sample account
IAMWorld(users, roles) ==
    [SampleProvider["IAM"] EXCEPT
        !["Users"] = [Users |-> [n \in DOMAIN users |-> [UserName |-> UserName(n)]]],
        !["AccessKeys"] =
            [u \in {UserName(n) : n \in DOMAIN users} |->
                LET n == CHOOSE m \in DOMAIN users : UserName(m) = u
                IN  [AccessKeyMetadata |->
                        [k \in DOMAIN users[n].keys |-> [AccessKeyId |-> KeyId(n, k)]]]],
        !["LastUsed"] =
            [id \in {KeyId(p[1], p[2]) : p \in KeyPlaces(users)} |->
                LET p == CHOOSE r \in KeyPlaces(users) : KeyId(r[1], r[2]) = id
                IN  [AccessKeyLastUsed |-> users[p[1]].keys[p[2]]]],
        !["AttachedUserPolicies"] =
            [u \in {UserName(n) : n \in DOMAIN users} |->
                LET n == CHOOSE m \in DOMAIN users : UserName(m) = u
                IN  [AttachedPolicies |-> users[n].attached]],
        !["RolePages"] = <<[Roles |-> [n \in DOMAIN roles |-> [RoleName |-> RoleName(n)]]]>>,
        !["AttachedRolePolicies"] =
            [r \in {RoleName(n) : n \in DOMAIN roles} |->
                LET n == CHOOSE m \in DOMAIN roles : RoleName(m) = r
                IN  [AttachedPolicies |-> roles[n].attached]]]

\* principals without access keys: an administrator and a read-only one
PrincipalFollowers ==
    {Principal(<<AwsAdministratorAccess>>, <<>>),
     Principal(<<[PolicyName |-> "ReadOnlyAccess",
                  PolicyArn |-> "arn:aws:iam::aws:policy/ReadOnlyAccess"]>>, <<>>)}

PrincipalLists ==
    VariedHead({Principal(a, <<>>) : a \in AttachedChoices}, PrincipalFollowers, MaxUsers)

\* up to MaxUsers users with one role, and one user with up to MaxUsers roles
IAMAdminWorlds ==
    {IAMWorld(users, <<Principal(<<>>, <<>>)>>) : users \in PrincipalLists}
    \cup {IAMWorld(<<Principal(<<>>, <<>>)>>, roles) : roles \in PrincipalLists}

\* up to MaxUsers users, the first with up to MaxKeys access keys
IAMKeyWorlds ==
    {IAMWorld(users, <<>>) :
        users \in VariedHead({Principal(<<>>, keys) : keys \in SeqsUpTo(LastUsedChoices, MaxKeys)},
                             {Principal(<<>>, <<[ServiceName |-> "N/A", Region |-> "N/A"]>>)},
                             MaxUsers)}

\* a function: has it a KMS key, reserved concurrency, a resource policy
FunctionChoices == [kms : BOOLEAN, reserved : BOOLEAN, policy : BOOLEAN]

FunctionName(n) == "fn-" \o ToString(n)

\* the entry of function n in a page of list_functions
FunctionEntry(q, n) ==
    IF q[n].kms
    THEN [FunctionName |-> FunctionName(n), KMSKeyArn |-> "arn:aws:kms:key/" \o ToString(n)]
    ELSE [FunctionName |-> FunctionName(n)]

\* the functions in one page, or in two with the second from k + 1 on
FunctionPages(entries, k) ==
    IF k = 0 THEN <<[Functions |-> entries]>>
    ELSE <<[Functions |-> SubSeq(entries, 1, k)],
           [Functions |-> SubSeq(entries, k + 1, Len(entries))]>>

\* the Lambda answers for the functions fn-1, fn-2, ... of q; get_policy
\* raises ResourceNotFoundException for a function without a resource policy
LambdaWorld(q, k) ==
    [Pages |-> FunctionPages([n \in DOMAIN q |-> FunctionEntry(q, n)], k),
     Concurrency |->
        [f \in {FunctionName(n) : n \in DOMAIN q} |->
            LET n == CHOOSE m \in DOMAIN q : FunctionName(m) = f
            IN  IF q[n].reserved THEN [ReservedConcurrentExecutions |-> 5] ELSE <<>>],
     Policy |->
        [f \in {FunctionName(n) : n \in DOMAIN q} |->
            LET n == CHOOSE m \in DOMAIN q : FunctionName(m) = f
            IN  IF q[n].policy THEN [Policy |-> "{}", RevisionId |-> "1"]
                ELSE ResourceNotFound]]

\* up to MaxFunctions functions, in one page or two
LambdaWorlds ==
    UNION {{LambdaWorld(q, k) : k \in 0..Len(q)} : q \in SeqsUpTo(FunctionChoices, MaxFunctions)}

\* group sg-1 with at most one permission, then the group with RDP open
SGOrderWorlds ==
    {[SecurityGroups |->
        <<[GroupId |-> "sg-1", IpPermissions |-> permissions],
          [GroupId |-> "sg-2", IpPermissions |->
              <<[FromPort |-> 3389, ToPort |-> 3389, IpRanges |-> <<[CidrIp |-> OpenCidr]>>]>>]>>] :
        permissions \in SeqsUpTo(PermissionChoices, 1)}

InitResources ==
    /\ ProgramStart
    /\ provider \in {[SampleProvider EXCEPT !["EC2"] = w] : w \in EC2Worlds}
                    \cup {[SampleProvider EXCEPT !["RDS"] = w] : w \in RDSWorlds}
                    \cup {[SampleProvider EXCEPT !["S3"] = w] : w \in S3Worlds}
                    \cup {[SampleProvider EXCEPT !["IAM"] = w] : w \in IAMAdminWorlds}
                    \cup {[SampleProvider EXCEPT !["IAM"] = w] : w \in IAMKeyWorlds}
                    \cup {[SampleProvider EXCEPT !["Lambda"] = w] : w \in LambdaWorlds}
                    \cup {[SampleProvider EXCEPT !["SecurityGroups"] = w] : w \in SGOrderWorlds}
    /\ faults = NoFaultPlan

SpecResources == InitResources /\ [][Next]_vars

-----------------------------------------------------------------------------
(* An account with two resources or more of every kind, and provider calls  *)
(* of one scan that raise                                                   *)

MultiProvider ==
    [EC2 |-> [Reservations |->
                Reservations(Numbered(<<[PublicIpAddress |-> "1.2.3.4"], <<>>,
                                        [PublicIpAddress |-> "5.6.7.8"]>>, "InstanceId", "i-"), 2)],
     IAM |-> [IAMWorld(<<Principal(<<AwsAdministratorAccess>>,
                                   <<[ServiceName |-> "N/A", Region |-> "N/A"],
                                     [ServiceName |-> "N/A", Region |-> "N/A"]>>),
                         Principal(<<AwsAdministratorAccess>>,
                                   <<[ServiceName |-> "N/A", Region |-> "N/A"]>>)>>,
                       <<Principal(<<AwsAdministratorAccess>>, <<>>),
                         Principal(<<AwsAdministratorAccess>>, <<>>)>>)
              EXCEPT !["PolicyPages"] =
                        <<[Policies |-> <<[PolicyName |-> "p1", Arn |-> "arn:p1",
                                           DefaultVersionId |-> "v1"],
                                          [PolicyName |-> "p2", Arn |-> "arn:p2",
                                           DefaultVersionId |-> "v1"]>>]>>,
                     !["PolicyVersions"] =
                        [a \in {"arn:p1", "arn:p2"} |->
                            [PolicyVersion |-> [Document |-> [Statement |->
                                [isList |-> TRUE,
                                 v |-> <<[Effect |-> "Allow", Action |-> "*",
                                          Resource |-> "*"]>>]]]]]],
     Lambda |-> LambdaWorld(<<[kms |-> FALSE, reserved |-> FALSE, policy |-> TRUE],
                              [kms |-> FALSE, reserved |-> FALSE, policy |-> TRUE]>>, 1),
     RDS |-> [DBInstances |-> Numbered(<<<<>>, <<>>>>, "DBInstanceIdentifier", "db-")],
     SecurityGroups |->
        [SecurityGroups |->
            <<[GroupId |-> "sg-1", IpPermissions |->
                <<[FromPort |-> 22, ToPort |-> 22, IpRanges |-> <<[CidrIp |-> OpenCidr]>>]>>],
              [GroupId |-> "sg-2", IpPermissions |->
                <<[FromPort |-> 3389, ToPort |-> 3389, IpRanges |-> <<[CidrIp |-> OpenCidr]>>]>>]>>],
     S3 |-> S3World(<<[Acl |-> [Grants |-> <<PublicReadGrant>>],
                       PolicyStatus |-> [PolicyStatus |-> [IsPublic |-> TRUE]],
                       Encryption |-> [ServerSideEncryptionConfiguration |-> [Rules |-> <<>>]],
                       Versioning |-> [Status |-> "Suspended"]],
                      [Acl |-> [Grants |-> <<PublicReadGrant>>],
                       PolicyStatus |-> [PolicyStatus |-> [IsPublic |-> TRUE]],
                       Encryption |-> [ServerSideEncryptionConfiguration |-> [Rules |-> <<>>]],
                       Versioning |-> [Status |-> "Suspended"]]>>)]

\* the errors of FaultErrors and the two client errors that the S3 scan
\* tells from the others
AllFaultErrors == FaultErrors \cup {NoSuchBucketPolicy, SSENotFound}

\* the plan in which the calls with a number in at raise e
FaultsAt(at, e) ==
    IF at = {} THEN NoFaults
    ELSE [i \in 1..(CHOOSE m \in at : \A x \in at : x <= m) |-> IF i \in at THEN e ELSE NoErr]

\* the sets of up to n of the numbers 1..m
RECURSIVE SetsUpTo(_, _)
SetsUpTo(m, n) ==
    IF n = 0 THEN {{}}
    ELSE LET smaller == SetsUpTo(m, n - 1)
         IN  smaller \cup {at \cup {x} : at \in smaller, x \in 1..m}

\* up to MaxFaults calls of the scan of one service raise e, and no call of
\* the other scans raises
FaultPlansOfOne(config, e) ==
    UNION {{[NoFaultPlan EXCEPT ![key] = FaultsAt(at, e)] :
                at \in SetsUpTo(NCalls(key, config[key]), MaxFaults)} :
           key \in Scanners}

InitFaults ==
    /\ ProgramStart
    /\ provider = MultiProvider
    /\ \E e \in AllFaultErrors : faults \in FaultPlansOfOne(provider, e)

SpecFaults == InitFaults /\ [][Next]_vars

-----------------------------------------------------------------------------
(* Properties of the scans of single services *)

\* the instances of all reservations, in listing order
AllInstances(config) ==
    Flatten([r \in DOMAIN config["EC2"]["Reservations"] |->
                config["EC2"]["Reservations"][r]["Instances"]])

HasPublicIp(instance) ==
    "PublicIpAddress" \in DOMAIN instance /\ instance["PublicIpAddress"] # ""

(* C12: scan_ec2_instances returns, for every instance of every            *)
(* reservation, exactly one finding with its instance id if it has a       *)
(* public IP address and none if the attribute is missing or empty; the    *)
(* number of findings is the number of instances with a public IP.         *)
C12_OneFindingPerPublicInstance ==
    InDict(findings, "EC2") =>
        LET list == DictGet(findings, "EC2")
            instances == AllInstances(provider)
        IN  /\ \A n \in DOMAIN instances :
                  CountWhere(list, LAMBDA f :
                      /\ IsIssueEntry(f)
                      /\ HasKey(f, "InstanceId")
                      /\ f["InstanceId"] = instances[n]["InstanceId"])
                  = IF HasPublicIp(instances[n]) THEN 1 ELSE 0
            /\ Len(list) = Cardinality({n \in DOMAIN instances : HasPublicIp(instances[n])})

\* scanned: two reservations, the first with a public instance and one with
\* an empty address, the second with an instance without the attribute
C12_Witness ==
    /\ InDict(findings, "EC2")
    /\ Len(provider["EC2"]["Reservations"]) = 2
    /\ AllInstances(provider) = <<[InstanceId |-> "i-1", PublicIpAddress |-> "1.2.3.4"],
                                  [InstanceId |-> "i-2", PublicIpAddress |-> ""],
                                  [InstanceId |-> "i-3"]>>
    /\ Len(provider["EC2"]["Reservations"][1]["Instances"]) = 2
    /\ Len(DictGet(findings, "EC2")) = 1

\* the findings C13 gives one database instance, in rule order
ExpectedRDSFindings(instance) ==
    LET id == instance["DBInstanceIdentifier"]
        public == "PubliclyAccessible" \in DOMAIN instance /\ instance["PubliclyAccessible"] = TRUE
        unencrypted == "StorageEncrypted" \notin DOMAIN instance
                       \/ instance["StorageEncrypted"] = FALSE
        no_backup == "BackupRetentionPeriod" \notin DOMAIN instance
                     \/ instance["BackupRetentionPeriod"] = 0
    IN  (IF public
         THEN <<[InstanceId |-> id, Issue |-> "RDS instance is publicly accessible."]>>
         ELSE <<>>)
        \o (IF unencrypted
            THEN <<[InstanceId |-> id, Issue |-> "RDS storage encryption is not enabled."]>>
            ELSE <<>>)
        \o (IF no_backup
            THEN <<[InstanceId |-> id, Issue |-> "No backup retention configured."]>>
            ELSE <<>>)

(* C13: per database instance scan_rds_instances emits, in this order, a    *)
(* 'publicly accessible' finding iff PubliclyAccessible is present and      *)
(* true, a 'storage encryption is not enabled' finding iff StorageEncrypted *)
(* is false or missing, and a 'No backup retention' finding iff             *)
(* BackupRetentionPeriod is 0 or missing; a missing attribute never makes   *)
(* the scan fail.                                                           *)
C13_ThreeRulesWithDefaults ==
    InDict(findings, "RDS") =>
        LET list == DictGet(findings, "RDS")
            instances == provider["RDS"]["DBInstances"]
        IN  /\ list = Flatten([n \in DOMAIN instances |-> ExpectedRDSFindings(instances[n])])
            /\ ErrorCount(list) = 0
            /\ Len(list) <= 3 * Len(instances)

\* scanned: an instance without any of the three attributes (two findings),
\* then one that trips every rule (three findings)
C13_Witness ==
    /\ InDict(findings, "RDS")
    /\ provider["RDS"]["DBInstances"] =
          <<[DBInstanceIdentifier |-> "db-1"],
            [DBInstanceIdentifier |-> "db-2", PubliclyAccessible |-> TRUE,
             StorageEncrypted |-> FALSE, BackupRetentionPeriod |-> 0]>>
    /\ Len(DictGet(findings, "RDS")) = 5

\* the four conditions of C14 on the responses for bucket b
GrantsAllUsers(config, b) ==
    LET acl == config["S3"]["Acl"][b]
    IN  /\ "Grants" \in DOMAIN acl
        /\ \E g \in DOMAIN acl["Grants"] :
              /\ "URI" \in DOMAIN acl["Grants"][g]["Grantee"]
              /\ acl["Grants"][g]["Grantee"]["URI"] = AllUsersURI

PolicyIsPublic(config, b) ==
    LET status == config["S3"]["PolicyStatus"][b]["PolicyStatus"]
    IN  "IsPublic" \in DOMAIN status /\ status["IsPublic"] = TRUE

HasEncryptionRule(config, b) ==
    config["S3"]["Encryption"][b]["ServerSideEncryptionConfiguration"]["Rules"] # <<>>

VersioningEnabled(config, b) ==
    LET versioning == config["S3"]["Versioning"][b]
    IN  "Status" \in DOMAIN versioning /\ versioning["Status"] = "Enabled"

\* the findings of list for bucket b whose text starts with prefix
BucketFindings(list, b, prefix) ==
    CountWhere(list, LAMBDA f :
        HasKey(f, "Bucket") /\ f["Bucket"] = b /\ HasIssuePrefix(f, prefix))

(* C14: when all provider calls succeed, a bucket has no finding iff it     *)
(* has no ACL grant to AllUsers, its policy status is not public, its       *)
(* encryption configuration has a rule and its versioning status is         *)
(* 'Enabled'; each of the four conditions that is violated contributes a    *)
(* finding for the bucket, and a condition that is met contributes none.    *)
C14_CleanBucketIffFourConditions ==
    InDict(findings, "S3") =>
        LET list == DictGet(findings, "S3")
            buckets == provider["S3"]["ListBuckets"]["Buckets"]
        IN  \A n \in DOMAIN buckets :
                LET b == buckets[n]["Name"]
                IN  /\ BucketFindings(list, b, "Bucket ACL allows public access (") > 0
                        <=> GrantsAllUsers(provider, b)
                    /\ BucketFindings(list, b, "Bucket policy allows public access.") > 0
                        <=> PolicyIsPublic(provider, b)
                    /\ BucketFindings(list, b, "No server-side encryption configured.") > 0
                        <=> ~HasEncryptionRule(provider, b)
                    /\ BucketFindings(list, b, "Bucket versioning is not enabled.") > 0
                        <=> ~VersioningEnabled(provider, b)
                    /\ BucketFindings(list, b, "") = 0
                        <=> /\ ~GrantsAllUsers(provider, b)
                            /\ ~PolicyIsPublic(provider, b)
                            /\ HasEncryptionRule(provider, b)
                            /\ VersioningEnabled(provider, b)

\* scanned: a bucket that meets the four conditions with an owner grant and
\* no IsPublic key (no finding), then a bucket that violates all four
C14_Witness ==
    /\ InDict(findings, "S3")
    /\ Len(provider["S3"]["ListBuckets"]["Buckets"]) = 2
    /\ provider["S3"]["Acl"]["b1"] = [Grants |-> <<OwnerGrant>>]
    /\ provider["S3"]["PolicyStatus"]["b1"] = [PolicyStatus |-> <<>>]
    /\ BucketFindings(DictGet(findings, "S3"), "b1", "") = 0
    /\ BucketFindings(DictGet(findings, "S3"), "b2", "") = 4

IAMList == DictGet(findings, "IAM")

\* some policy attached has the name AdministratorAccess
HasAdministratorAccess(attached_policies) ==
    \E i \in DOMAIN attached_policies :
        attached_policies[i]["PolicyName"] = "AdministratorAccess"

(* C15 as claimed: the admin-access checks yield exactly one finding, with  *)
(* the user's or role's name, for each user and each role that has a        *)
(* policy named 'AdministratorAccess' attached, and none for a user or      *)
(* role whose attached policies all have other names.                       *)
C15_OneFindingPerAdmin ==
    InDict(findings, "IAM") =>
        /\ \A n \in DOMAIN provider["IAM"]["Users"]["Users"] :
              LET u == provider["IAM"]["Users"]["Users"][n]["UserName"]
                  attached == provider["IAM"]["AttachedUserPolicies"][u]["AttachedPolicies"]
              IN  CountWhere(IAMList, LAMBDA f :
                      /\ HasKey(f, "UserName") /\ f["UserName"] = u
                      /\ HasIssuePrefix(f, "IAM User '" \o u \o "' has AdministratorAccess"))
                  = IF HasAdministratorAccess(attached) THEN 1 ELSE 0
        /\ \A pg \in DOMAIN provider["IAM"]["RolePages"] :
              \A n \in DOMAIN provider["IAM"]["RolePages"][pg]["Roles"] :
                  LET r == provider["IAM"]["RolePages"][pg]["Roles"][n]["RoleName"]
                      attached == provider["IAM"]["AttachedRolePolicies"][r]["AttachedPolicies"]
                  IN  CountWhere(IAMList, LAMBDA f :
                          /\ HasKey(f, "RoleName") /\ f["RoleName"] = r
                          /\ HasIssuePrefix(f, "IAM Role '" \o r \o "' has AdministratorAccess"))
                      = IF HasAdministratorAccess(attached) THEN 1 ELSE 0

\* list has a finding for the access key id
KeyReported(list, id) ==
    CountWhere(list, LAMBDA f : HasKey(f, "AccessKeyId") /\ f["AccessKeyId"] = id) > 0

NeverUsed(last_used) == "LastUsedDate" \notin DOMAIN last_used

UnusedLongerThan(last_used, days) ==
    "LastUsedDate" \in DOMAIN last_used /\ last_used["LastUsedDate"].days_ago > days

(* C16 as claimed: check_inactive_access_keys reports an access key iff it  *)
(* has never been used or has not been used for longer than threshold_days  *)
(* (90 by default); a key last used within the threshold is not reported.   *)
C16_InactiveKeysReported ==
    InDict(findings, "IAM") =>
        \A id \in DOMAIN provider["IAM"]["LastUsed"] :
            LET last_used == provider["IAM"]["LastUsed"][id]["AccessKeyLastUsed"]
            IN  KeyReported(IAMList, id)
                <=> (NeverUsed(last_used) \/ UnusedLongerThan(last_used, DefaultThresholdDays))

\* the functions of all pages, in listing order
AllFunctions(config) ==
    Flatten([pg \in DOMAIN config["Lambda"]["Pages"] |->
                config["Lambda"]["Pages"][pg]["Functions"]])

\* the findings C17 gives one function, in rule order
ExpectedLambdaFindings(config, function) ==
    LET name == function["FunctionName"]
        no_kms == "KMSKeyArn" \notin DOMAIN function
        no_reserved == "ReservedConcurrentExecutions"
                           \notin DOMAIN config["Lambda"]["Concurrency"][name]
        has_policy == "Policy" \in DOMAIN config["Lambda"]["Policy"][name]
    IN  (IF no_kms
         THEN <<[FunctionName |-> name,
                 Issue |-> "Environment variables are not encrypted with KMS."]>>
         ELSE <<>>)
        \o (IF no_reserved
            THEN <<[FunctionName |-> name, Issue |-> "No reserved concurrency set."]>>
            ELSE <<>>)
        \o (IF has_policy
            THEN <<[FunctionName |-> name,
                    Issue |-> "Function has resource policy attached; review for overly permissive access."]>>
            ELSE <<>>)

(* C17: for every function of every page scan_lambda_functions emits, in    *)
(* this order, a finding iff the function has no KMS key, a finding iff no  *)
(* reserved concurrency is set and a finding iff a resource policy is       *)
(* attached; a function that trips no rule yields nothing and the scan      *)
(* goes on to the next function.                                            *)
C17_ThreeLambdaRules ==
    InDict(findings, "Lambda") =>
        LET list == DictGet(findings, "Lambda")
            functions == AllFunctions(provider)
        IN  /\ list = Flatten([n \in DOMAIN functions |->
                                 ExpectedLambdaFindings(provider, functions[n])])
            /\ Len(list) <= 3 * Len(functions)
            /\ \A n \in DOMAIN functions :
                  \E i, j \in DOMAIN calls :
                      /\ calls[i] = [scanner |-> "Lambda", op |-> "get_function_concurrency",
                                     arg |-> functions[n]["FunctionName"]]
                      /\ calls[j] = [scanner |-> "Lambda", op |-> "get_policy",
                                     arg |-> functions[n]["FunctionName"]]

\* position of x in the sequence q
IndexOf(q, x) == CHOOSE n \in DOMAIN q : q[n] = x

\* how the finding text of each rule starts, per service in the order in
\* which the code evaluates the rules
RuleOrder ==
    [EC2 |-> <<"EC2 instance ">>,
     IAM |-> <<"Root account ", "Overly permissive policy found: ", "Access key ",
               "IAM User '", "IAM Role '">>,
     Lambda |-> <<"Environment variables are not encrypted", "No reserved concurrency",
                  "Function has resource policy">>,
     RDS |-> <<"RDS instance is publicly accessible", "RDS storage encryption",
               "No backup retention">>,
     SecurityGroups |-> <<"Ports ", "Dangerous port ">>,
     S3 |-> <<"Bucket ACL allows public access", "Bucket policy allows public access",
              "No server-side encryption", "Bucket versioning is not enabled">>]

RuleRank(k, f) == CHOOSE r \in DOMAIN RuleOrder[k] : HasIssuePrefix(f, RuleOrder[k][r])

\* the key under which a finding names its resource
ResourceKey ==
    [EC2 |-> "InstanceId", Lambda |-> "FunctionName", RDS |-> "InstanceId",
     SecurityGroups |-> "SecurityGroup", S3 |-> "Bucket"]

Column(q, key) == [n \in DOMAIN q |-> q[n][key]]

\* the identifiers of the resources of a service, in listing order
ListedIds(k, config) ==
    CASE k = "EC2" -> Column(AllInstances(config), "InstanceId")
      [] k = "Lambda" -> Column(AllFunctions(config), "FunctionName")
      [] k = "RDS" -> Column(config["RDS"]["DBInstances"], "DBInstanceIdentifier")
      [] k = "SecurityGroups" -> Column(GroupsOf(config), "GroupId")
      [] k = "S3" -> Column(config["S3"]["ListBuckets"]["Buckets"], "Name")

AllPolicies(config) ==
    Flatten([pg \in DOMAIN config["IAM"]["PolicyPages"] |->
                config["IAM"]["PolicyPages"][pg]["Policies"]])

AllRoles(config) ==
    Flatten([pg \in DOMAIN config["IAM"]["RolePages"] |->
                config["IAM"]["RolePages"][pg]["Roles"]])

\* the place of the resource of an IAM finding in the listing its check reads
IAMResourceRank(config, f) ==
    LET users == Column(config["IAM"]["Users"]["Users"], "UserName")
    IN  CASE HasKey(f, "PolicyName") ->
                IndexOf(Column(AllPolicies(config), "PolicyName"), f["PolicyName"])
          [] HasKey(f, "AccessKeyId") ->
                IndexOf(users, f["UserName"]) * 10
                + IndexOf(Column(config["IAM"]["AccessKeys"][f["UserName"]]["AccessKeyMetadata"],
                                 "AccessKeyId"), f["AccessKeyId"])
          [] HasKey(f, "UserName") /\ ~HasKey(f, "AccessKeyId") -> IndexOf(users, f["UserName"])
          [] HasKey(f, "RoleName") -> IndexOf(Column(AllRoles(config), "RoleName"), f["RoleName"])
          [] OTHER -> 0

\* a security group with at most one IP range in all its permissions
SingleRange(sg) == Cardinality(RangesWhere(sg, LAMBDA permission, ip_range : TRUE)) <= 1

\* the place of a finding in discovery order: its resource in the listing,
\* then its rule (for IAM its check, then its resource); the rules of a
\* security group are evaluated once per IP range, so they rank its
\* findings only when it has a single range
DiscoveryRank(k, config, f) ==
    IF k = "IAM" THEN RuleRank(k, f) * 100 + IAMResourceRank(config, f)
    ELSE LET n == IndexOf(ListedIds(k, config), f[ResourceKey[k]])
         IN  n * 10 + (IF k = "SecurityGroups" /\ ~SingleRange(GroupsOf(config)[n])
                       THEN 0 ELSE RuleRank(k, f))

\* the snapshot of service k with only the first n resources listed
Truncated(k, config, n) ==
    CASE k = "EC2" -> [Reservations |-> <<[Instances |-> SubSeq(AllInstances(config), 1, n)]>>]
      [] k = "Lambda" ->
            [config["Lambda"] EXCEPT
                !["Pages"] = <<[Functions |-> SubSeq(AllFunctions(config), 1, n)]>>]
      [] k = "RDS" -> [DBInstances |-> SubSeq(config["RDS"]["DBInstances"], 1, n)]
      [] k = "SecurityGroups" -> [SecurityGroups |-> SubSeq(GroupsOf(config), 1, n)]
      [] k = "S3" ->
            [config["S3"] EXCEPT
                !["ListBuckets"] = [Buckets |-> SubSeq(config["S3"]["ListBuckets"]["Buckets"], 1, n)]]

\* the lists the scan of k has built after each of its resources (for IAM,
\* before each of its provider calls)
ListsOnTheWay(k, config) ==
    IF k = "IAM"
    THEN {Try(k, config[k], SingleFault(m, AccessDenied)).findings :
            m \in 1..NCalls(k, config[k])}
    ELSE {Scan(k, Truncated(k, config, n), NoFaults).findings :
            n \in 0..Len(ListedIds(k, config))}

(* C18: in each list of the report the findings of a resource listed        *)
(* earlier precede those of a resource listed later and the findings of     *)
(* one resource are in the order in which the rules are evaluated; every    *)
(* list the scan had built on the way is a prefix of the list it returns:   *)
(* nothing is reordered, removed or rewritten after it was appended.        *)
C18_DiscoveryOrder ==
    \A k \in Scanners :
        InDict(findings, k) =>
            LET list == DictGet(findings, k)
            IN  /\ \A i, j \in DOMAIN list :
                      (i < j /\ IsIssueEntry(list[i]) /\ IsIssueEntry(list[j]))
                          => DiscoveryRank(k, provider, list[i])
                             <= DiscoveryRank(k, provider, list[j])
                /\ \A i \in DOMAIN list : IsErrorEntry(list[i]) => i = Len(list)
                /\ \A earlier \in ListsOnTheWay(k, provider) : IsPrefix(earlier, list)

\* a run has scanned two buckets with two findings or more each, after the
\* other five services
C18_Witness ==
    /\ pc = "return"
    /\ Len(provider["S3"]["ListBuckets"]["Buckets"]) = 2
    /\ BucketFindings(DictGet(findings, "S3"), "b1", "") >= 2
    /\ BucketFindings(DictGet(findings, "S3"), "b2", "") >= 2
    /\ Len(DictGet(findings, "RDS")) = 3

-----------------------------------------------------------------------------
(* Properties of scans in which provider calls raise *)

\* the provider calls the scan of k has issued in the current run
IssuedBy(k) == SelectSeq(calls, LAMBDA c : c.scanner = k)

\* the numbers of the issued calls of k that raised, and of those whose
\* exception reached the handler of the scan method
RaisedAt(k) == {i \in DOMAIN IssuedBy(k) : FaultAt(faults[k], i) # NoErr}

FailedAt(k) == {i \in RaisedAt(k) : ~Absorbed(IssuedBy(k)[i], FaultAt(faults[k], i))}

\* the exception that issued call number i of k raised
RaisedBy(k, i) == Raise(FaultAt(faults[k], i), IssuedBy(k)[i].op)

\* the position in calls of call number i of scanner k
PositionOf(k, i) ==
    CHOOSE p \in DOMAIN calls :
        /\ calls[p].scanner = k
        /\ Cardinality({q \in 1..p : calls[q].scanner = k}) = i

NextScanner(k) == ScanOrder[IndexOf(ScanOrder, k) + 1]

(* C11: within one scan a provider call that raised is not issued again;    *)
(* a call whose exception ends the scan is the last call of that service    *)
(* in the run; the failure ends only that scan: the call issued next is     *)
(* the first call of the next service, and every service is scanned.        *)
C11_NoRetries ==
    /\ \A k \in Scanners :
          InDict(findings, k) =>
              /\ \A i \in RaisedAt(k) : \A j \in DOMAIN IssuedBy(k) :
                    j > i => [op |-> IssuedBy(k)[j].op, arg |-> IssuedBy(k)[j].arg]
                             # [op |-> IssuedBy(k)[i].op, arg |-> IssuedBy(k)[i].arg]
              /\ \A i \in FailedAt(k) : i = Len(IssuedBy(k))
              /\ \A i \in FailedAt(k) :
                    (k # "S3" /\ InDict(findings, NextScanner(k))) =>
                        /\ PositionOf(k, i) + 1 \in DOMAIN calls
                        /\ calls[PositionOf(k, i) + 1].scanner = NextScanner(k)
    /\ pc = "return" => \A k \in Scanners : IssuedBy(k) # <<>>

\* a run has returned in which the Lambda scan failed at the get_policy call
\* for its first function, and the RDS scan ran after it
C11_Witness ==
    /\ pc = "returned"
    /\ FailedAt("Lambda") = {3}
    /\ IssuedBy("Lambda")[3] = [scanner |-> "Lambda", op |-> "get_policy", arg |-> "fn-1"]
    /\ Len(IssuedBy("Lambda")) = 3
    /\ Len(IssuedBy("RDS")) = 1

\* the checks of run_all_checks, numbered in the order C19 gives
Check(j, st, world, plan) ==
    CASE j = 1 -> check_root_account_usage(st, world, plan)
      [] j = 2 -> list_overly_permissive_policies(st, world, plan)
      [] j = 3 -> check_inactive_access_keys(st, world, plan, DefaultThresholdDays)
      [] j = 4 -> check_users_for_admin_access(st, world, plan)
      [] j = 5 -> check_roles_for_admin_access(st, world, plan)

\* check j run alone on an empty list, no call raising
CheckAlone(j, world) == Check(j, NewScan, world, NoFaults)

\* the calls and the findings of the checks before check j, one after the other
RECURSIVE CallsBefore(_, _)
CallsBefore(j, world) ==
    IF j = 1 THEN <<>> ELSE CallsBefore(j - 1, world) \o CheckAlone(j - 1, world).calls

RECURSIVE FindingsBefore(_, _)
FindingsBefore(j, world) ==
    IF j = 1 THEN <<>> ELSE FindingsBefore(j - 1, world) \o CheckAlone(j - 1, world).findings

\* the check that issues call number n of the scan
CheckOf(n, world) ==
    CHOOSE j \in 1..5 : Len(CallsBefore(j, world)) < n /\ n <= Len(CallsBefore(j + 1, world))

Untagged(cs) == [i \in DOMAIN cs |-> [op |-> cs[i].op, arg |-> cs[i].arg]]

(* C19: run_all_checks runs root-account MFA, overly permissive policies,   *)
(* inactive access keys, users with admin access, roles with admin access   *)
(* in this order on one list.  If a call of check k raises, no call of the  *)
(* checks after k is issued, and the list is the findings of the checks     *)
(* before k, then those check k appended before the call, then one error    *)
(* entry: what the later checks would have reported is not in the list.     *)
C19_LaterChecksSkipped ==
    InDict(findings, "IAM") =>
        LET world == provider["IAM"]
            issued == Untagged(IssuedBy("IAM"))
        IN  IF RaisedAt("IAM") = {}
            THEN /\ issued = CallsBefore(6, world)
                 /\ IAMList = FindingsBefore(6, world)
            ELSE LET n == FirstOf(RaisedAt("IAM"))
                     e == FaultAt(faults["IAM"], n)
                     k == CheckOf(n, world)
                     own == n - Len(CallsBefore(k, world))
                 IN  /\ issued = SubSeq(CallsBefore(6, world), 1, n)
                     /\ IAMList = FindingsBefore(k, world)
                                  \o Check(k, NewScan, world, SingleFault(own, e)).findings
                                  \o <<[Error |-> Str(RaisedBy("IAM", n))]>>
                     /\ IsPrefix(Front(IAMList), FindingsBefore(6, world))
                     /\ k < 5 => Len(IAMList) - 1 < Len(FindingsBefore(6, world))

\* the IAM scan failed in the fourth check at the call for the second
\* user: seven findings of checks one to four, then the error entry
C19_Witness ==
    /\ InDict(findings, "IAM")
    /\ RaisedAt("IAM") = {13}
    /\ IssuedBy("IAM")[13].op = "list_attached_user_policies"
    /\ IssuedBy("IAM")[13].arg = "user2"
    /\ Len(IAMList) = 8
    /\ HasIssuePrefix(IAMList[7], "IAM User 'user1'")
    /\ IsErrorEntry(IAMList[8])

IdSet(k, config) == {ListedIds(k, config)[n] : n \in DOMAIN ListedIds(k, config)}

\* the findings of list about the resource id of service k
FindingsAbout(k, list, id) ==
    SelectSeq(list, LAMBDA f : HasKey(f, ResourceKey[k]) /\ f[ResourceKey[k]] = id)

\* the number, in listing order, of the resource under evaluation when
\* call number n of the scan of k is issued: the resource the call names,
\* or for a listing call the number of resources evaluated before it
EvaluatedAt(k, config, n) ==
    LET issued == IssuedBy(k)
    IN  IF issued[n].arg \in IdSet(k, config)
        THEN IndexOf(ListedIds(k, config), issued[n].arg)
        ELSE Cardinality({issued[i].arg : i \in 1..n} \cap IdSet(k, config))

(* C20: a list returned by a scan has at most one error entry, and it is    *)
(* its last element.  When a call raises to the handler of the scan method  *)
(* while resource N is evaluated, no call is issued and no finding          *)
(* appended for a resource listed after N, and the findings of the          *)
(* resources before N, and those already appended for N, are in the list    *)
(* before the error entry.                                                  *)
C20_OneErrorLast ==
    \A k \in Scanners :
        InDict(findings, k) =>
            LET list == DictGet(findings, k)
                issued == IssuedBy(k)
            IN  /\ ErrorCount(list) <= 1
                /\ \A i \in DOMAIN list : HasKey(list[i], "Error") => i = Len(list)
                /\ ErrorCount(list) = 1 <=> FailedAt(k) # {}
                /\ FailedAt(k) # {} =>
                      LET n == FirstOf(FailedAt(k))
                          until_n == Scan(k, provider[k], SubSeq(faults[k], 1, n - 1)).findings
                      IN  /\ list[Len(list)] = [Error |-> Str(RaisedBy(k, n))]
                          /\ IsPrefix(Front(list), until_n)
                          /\ k \in {"Lambda", "S3"} =>
                                LET ids == ListedIds(k, provider)
                                    N == EvaluatedAt(k, provider, n)
                                IN  /\ \A i \in DOMAIN issued :
                                          issued[i].arg \in IdSet(k, provider)
                                              => IndexOf(ids, issued[i].arg) <= N
                                    /\ \A m \in DOMAIN ids :
                                          /\ m > N => FindingsAbout(k, list, ids[m]) = <<>>
                                          /\ m < N => FindingsAbout(k, list, ids[m])
                                                      = FindingsAbout(k, until_n, ids[m])
                                          /\ m = N => IsPrefix(FindingsAbout(k, list, ids[m]),
                                                               FindingsAbout(k, until_n, ids[m]))

\* the S3 scan went on after the policy status call of the first bucket
\* raised and failed at its versioning call: two findings for the first
\* bucket, the error entry, nothing for the second bucket
C20_Witness ==
    /\ InDict(findings, "S3")
    /\ RaisedAt("S3") = {3, 5} /\ FailedAt("S3") = {5}
    /\ Len(ListedIds("S3", provider)) = 2
    /\ Len(FindingsAbout("S3", DictGet(findings, "S3"), "b1")) = 2
    /\ Len(DictGet(findings, "S3")) = 3
    /\ IsErrorEntry(DictGet(findings, "S3")[3])

S3List == DictGet(findings, "S3")

\* call number i of the S3 scan is followed by a call of op for the same bucket
FollowedBy(i, op) ==
    /\ i + 1 \in DOMAIN IssuedBy("S3")
    /\ IssuedBy("S3")[i + 1].op = op
    /\ IssuedBy("S3")[i + 1].arg = IssuedBy("S3")[i].arg

\* call number i is the last call of the S3 scan, and the list ends with
\* the only error entry, which reports the exception of that call
EndsScanWithError(i) ==
    /\ i = Len(IssuedBy("S3"))
    /\ ErrorCount(S3List) = 1
    /\ S3List[Len(S3List)] = [Error |-> Str(RaisedBy("S3", i))]

(* C21: in scan_s3_buckets (1) an exception from get_bucket_policy_status   *)
(* adds neither a finding nor an error entry, and the encryption check of   *)
(* the bucket runs next; (2) from get_bucket_encryption, a client error     *)
(* with code ServerSideEncryptionConfigurationNotFoundError adds exactly    *)
(* one 'No server-side encryption configured' finding, any other client     *)
(* error adds nothing, in both cases the versioning check runs next, and    *)
(* an exception that is not a client error ends the scan with one error     *)
(* entry; (3) an exception from get_bucket_acl or get_bucket_versioning     *)
(* ends the scan with one error entry.  When no exception ends the scan,    *)
(* every bucket is scanned and the list has no error entry.                 *)
C21_PerBucketHandlers ==
    InDict(findings, "S3") =>
        /\ \A i \in RaisedAt("S3") :
              LET c == IssuedBy("S3")[i]
                  e == FaultAt(faults["S3"], i)
              IN  CASE c.op = "get_bucket_policy_status" ->
                         /\ BucketFindings(S3List, c.arg, "Bucket policy allows public access") = 0
                         /\ S3List # <<>> => S3List[Len(S3List)] # [Error |-> Str(RaisedBy("S3", i))]
                                             \/ \E j \in RaisedAt("S3") : j > i
                         /\ FollowedBy(i, "get_bucket_encryption")
                    [] c.op = "get_bucket_encryption" /\ e.cls = "ClientError" ->
                         /\ BucketFindings(S3List, c.arg, "No server-side encryption configured.")
                            = IF e.code = "ServerSideEncryptionConfigurationNotFoundError"
                              THEN 1 ELSE 0
                         /\ FollowedBy(i, "get_bucket_versioning")
                    [] c.op = "get_bucket_encryption" /\ e.cls # "ClientError" ->
                         EndsScanWithError(i)
                    [] c.op \in {"get_bucket_acl", "get_bucket_versioning"} ->
                         EndsScanWithError(i)
                    [] OTHER -> EndsScanWithError(i)
        /\ (\A i \in RaisedAt("S3") :
                \/ IssuedBy("S3")[i].op = "get_bucket_policy_status"
                \/ /\ IssuedBy("S3")[i].op = "get_bucket_encryption"
                   /\ FaultAt(faults["S3"], i).cls = "ClientError")
            => /\ ErrorCount(S3List) = 0
               /\ Len(IssuedBy("S3")) = 1 + 4 * Len(ListedIds("S3", provider))

\* the S3 scan has returned after the policy status call and the encryption
\* call of the first bucket both raised the SSE-not-found client error:
\* ACL, encryption and versioning findings for it, four for the second
C21_Witness ==
    /\ InDict(findings, "S3")
    /\ RaisedAt("S3") = {3, 4}
    /\ FaultAt(faults["S3"], 4) = SSENotFound
    /\ Len(IssuedBy("S3")) = 9
    /\ BucketFindings(S3List, "b1", "") = 3
    /\ BucketFindings(S3List, "b1", "No server-side encryption configured.") = 1
    /\ BucketFindings(S3List, "b2", "") = 4
    /\ ErrorCount(S3List) = 0

====
